---- MODULE Spec2Model ----
(***************************************************************************)
(* resfetch: one call through the function returned by createResfetch.     *)
(* The call is the sequence of suspension points of create.ts `fetcher`    *)
(* and of the `enhance` executor it awaits: request-preparation            *)
(* validation, the attempt/retry loop, the post-loop classification and    *)
(* the conversion of whatever was thrown into a result.                    *)
(***************************************************************************)
EXTENDS Integers, Sequences, FiniteSets, TLC

\* Largest retry budget (retry.attempts) the inputs configure.
MaxAttempts == 2

(***************************************************************************)
(* JavaScript values.  Every value is a record tagged by `t`.              *)
(***************************************************************************)
Undefined == [t |-> "undefined"]
Null == [t |-> "null"]
Str(s) == [t |-> "string", s |-> s]
Num(n) == [t |-> "number", n |-> n]
\* A plain object, identified by a label.
Obj(k) == [t |-> "object", k |-> k]
\* new Error(message)
ErrorOf(m) == [t |-> "Error", message |-> m]

\* ToBoolean(v): undefined, null, '' and 0 are falsy.
Truthy(v) == ~(v.t \in {"undefined", "null"} \/ v = Str("") \/ v = Num(0))

\* v instanceof Error (ValidationError and ResponseError extend Error).
InstanceOfError(v) == v.t \in {"Error", "ValidationError", "ResponseError"}

\* The statuses and bodies a transport answers with.
Statuses == {200, 500}
Bodies == {"", "7"}

\* A Response, with the attempt whose transport call returned it.
ResponseOf(status, body, n) ==
    [t |-> "Response", status |-> status, body |-> body, attempt |-> n]

\* response.ok
ResponseOk(res) == res.status >= 200 /\ res.status <= 299

\* response.statusText, the reason phrase of the status.
StatusText(status) ==
    CASE status = 200 -> "OK"
      [] status = 500 -> "Internal Server Error"
      [] OTHER -> ""

\* `[${response.status}] ${response.statusText}`
StatusMessage(status) ==
    CASE status = 200 -> "[200] " \o StatusText(status)
      [] status = 500 -> "[500] " \o StatusText(status)
      [] OTHER -> "[?] "

(***************************************************************************)
(* errors.ts                                                               *)
(***************************************************************************)
\* JSON.stringify(result.issues) for the issue lists of the model.
RECURSIVE JoinIssues(_)
JoinIssues(issues) ==
    IF Len(issues) = 1 THEN issues[1]
    ELSE issues[1] \o "," \o JoinIssues(Tail(issues))

StringifyIssues(issues) ==
    IF Len(issues) = 0 THEN "[]" ELSE "[" \o JoinIssues(issues) \o "]"

\* new ValidationError(result, data)
ValidationError(issues, data) ==
    [t |-> "ValidationError", message |-> StringifyIssues(issues),
     issues |-> issues, data |-> data]

\* new ResponseError(props); a missing prop is Undefined.
ResponseErrorMutNoOriginal(props) ==
    [t |-> "ResponseError",
     message |-> IF Truthy(props.message) THEN props.message.s ELSE "",
     response |-> props.response,
     request |-> props.request,
     data |-> props.data,
     status |-> IF props.response = Undefined
                THEN Undefined ELSE Num(props.response.status),
     originalError |-> Undefined]

ResponseErrorMutStatusZero(props) ==
    [t |-> "ResponseError",
     message |-> IF Truthy(props.message) THEN props.message.s
                 ELSE IF InstanceOfError(props.originalError)
                      THEN props.originalError.message ELSE "",
     response |-> props.response,
     request |-> props.request,
     data |-> props.data,
     status |-> IF props.response = Undefined
                THEN Num(0) ELSE Num(props.response.status),
     originalError |-> props.originalError]

ResponseError(props) ==
    [t |-> "ResponseError",
     message |-> IF Truthy(props.message) THEN props.message.s
                 ELSE IF InstanceOfError(props.originalError)
                      THEN props.originalError.message ELSE "",
     response |-> props.response,
     request |-> props.request,
     data |-> props.data,
     status |-> IF props.response = Undefined
                THEN Undefined ELSE Num(props.response.status),
     originalError |-> props.originalError]

isValidationError(e) == e.t = "ValidationError"
isResponseError(e) == e.t = "ResponseError"

(***************************************************************************)
(* result.ts                                                               *)
(***************************************************************************)
\* A property that is not set reads as undefined.
errMutAsData(error) == [ok |-> FALSE, data |-> error, error |-> Undefined]

ok(data) == [ok |-> TRUE, data |-> data, error |-> Undefined]
err(error) == [ok |-> FALSE, data |-> Undefined, error |-> error]

(***************************************************************************)
(* fallback-options.ts                                                     *)
(***************************************************************************)
\* JSON.parse(text) succeeds on the JSON texts of the model.
IsJSON(text) == text \in {"7"}
JSONParse(text) == CASE text = "7" -> Num(7) [] OTHER -> Undefined

\* fallbackOptions.parseResponse: null for no response; the parsed JSON, or
\* the text itself, or null for an empty text.
DefaultParseResponse(res) ==
    IF res = Undefined THEN Null
    ELSE IF IsJSON(res.body) THEN JSONParse(res.body)
    ELSE IF res.body = "" THEN Null ELSE Str(res.body)

\* fallbackOptions.parseRejected
DefaultParseRejected(res, req) ==
    ResponseError([message |-> IF res = Undefined THEN Str("")
                               ELSE Str(StatusMessage(res.status)),
                   data |-> DefaultParseResponse(res),
                   response |-> res,
                   request |-> req,
                   originalError |-> Undefined])

\* fallbackOptions.reject: response => !response?.ok
DefaultReject(res) == IF res = Undefined THEN TRUE ELSE ~ResponseOk(res)

\* fallbackOptions.retry.when: ctx => ctx.response?.ok === false
DefaultRetryWhen(ctx) ==
    IF ctx.response = Undefined THEN FALSE ELSE ~ResponseOk(ctx.response)

\* fallbackOptions.retry.attempts
DefaultRetryAttempts == 0

(***************************************************************************)
(* utils.ts                                                                *)
(***************************************************************************)
\* What schema['~standard'].validate(data) can answer: the value (as given
\* or transformed), or issues.
SchemaResults(input) ==
    { [hasIssues |-> FALSE, issues |-> <<>>, value |-> input],
      [hasIssues |-> FALSE, issues |-> <<>>, value |-> Obj("transformed")],
      [hasIssues |-> TRUE, issues |-> <<"invalid">>, value |-> Undefined] }

\* validate(schema, data): throws a ValidationError carrying the input when
\* the schema reports issues, returns result.value otherwise.
validateMutPartialData(res, input) ==
    IF res.hasIssues
    THEN [threw |-> TRUE, value |-> ValidationError(res.issues, res.value)]
    ELSE [threw |-> FALSE, value |-> res.value]

validate(res, input) ==
    IF res.hasIssues
    THEN [threw |-> TRUE, value |-> ValidationError(res.issues, input)]
    ELSE [threw |-> FALSE, value |-> res.value]

(***************************************************************************)
(* The inputs of one call: the client's options and the per-call options.  *)
(***************************************************************************)
\* A key that an options object does not have.
Absent == [t |-> "absent"]

\* { ...a, ...b } read at one key, given what a and b hold at that key.
Spread(a, b) == IF b = Absent THEN a ELSE b

\* A schema entry: which parts have a validator, and the method of the
\* route.
SchemaShapes ==
    { [body |-> FALSE, query |-> FALSE, params |-> FALSE, response |-> TRUE],
      [body |-> TRUE, query |-> TRUE, params |-> TRUE, response |-> FALSE] }

FetchSchemas(m) ==
    { [body |-> sh.body, query |-> sh.query, params |-> sh.params,
       response |-> sh.response, method |-> md] :
        sh \in SchemaShapes, md \in {Undefined, Str(m)} }

\* A schema with a response validator alone.
ResponseSchema ==
    [body |-> FALSE, query |-> FALSE, params |-> FALSE, response |-> TRUE,
     method |-> Undefined]

\* retry.attempts: a count, or a function of {request}.
AttemptsOptions ==
    [kind : {"const"}, n : 0..MaxAttempts] \cup {[kind |-> "fn", n |-> 0]}

\* retry.delay and retry.when given as functions.
DelayFn == [kind |-> "fn", n |-> 0]
CustomWhen == [kind |-> "custom"]

\* A retry option of one layer: each key is there or not.
RetryLayers ==
    [ attempts : AttemptsOptions \cup {Absent},
      delay : {Absent, DelayFn},
      when : {Absent, CustomWhen} ]

NoRetry == [attempts |-> Absent, delay |-> Absent, when |-> Absent]

\* What the functions the caller supplies (hooks, retry.when, retry.attempts,
\* retry.delay, reject, parseRejected, parseResponse) throw when they throw:
\* a new Error, undefined, a new ResponseError; "rethrow" is a new Error,
\* but for an onError hook, which throws the error it was given.
ThrowKinds == {"Error", "undefined", "ResponseError", "rethrow"}

\* Values that are given and falsy.
FalsyValues == {Null, Str(""), Num(0)}

Configs ==
    [ globalSchema : FetchSchemas("PUT") \cup {Undefined},    \* schema?.schema?.[url]
      callSchema : FetchSchemas("PATCH") \cup {Undefined},    \* fetcherOptions?.schema
      method : {Absent, Str("DELETE")},                       \* fetcherOptions?.method
      baseMethod : {Absent, Str("POST")},                     \* defaultOpts.method
      body : {Undefined, Obj("body")} \cup FalsyValues,
      query : {Undefined, Obj("query")} \cup FalsyValues,
      params : {Undefined, Obj("params")} \cup FalsyValues,
      requestValid : BOOLEAN,         \* new Request(url, options) parses the URL
      hooksG : BOOLEAN,               \* the five hooks of the client's options
      hooksL : BOOLEAN,               \* the five hooks of the per-call options
      baseRetry : RetryLayers,        \* defaultOpts.retry
      callRetry : RetryLayers,        \* fetcherOpts?.retry
      custom : BOOLEAN,               \* reject, parseRejected, parseResponse given
      signal : BOOLEAN,               \* fetcherOpts.signal is given
      baseSignal : BOOLEAN,           \* defaultOpts.signal is given
      timeout : BOOLEAN,              \* options.timeout is a positive number
      anySupported : BOOLEAN,         \* 'any' in AbortSignal, on this runtime
      throws : ThrowKinds ]           \* what the caller's functions throw

\* Calls that vary the retry policy and the hooks: no payload, the count of
\* attempts given per call, delay and when in the client's options.
RetryInputs ==
    [ globalSchema : {Undefined},
      callSchema : {Undefined, ResponseSchema},
      method : {Absent}, baseMethod : {Absent},
      body : {Undefined}, query : {Undefined}, params : {Undefined},
      requestValid : {TRUE},
      hooksG : BOOLEAN, hooksL : BOOLEAN,
      baseRetry : [attempts : {Absent}, delay : {Absent, DelayFn},
                   when : {Absent, CustomWhen}],
      callRetry : [attempts : AttemptsOptions \cup {Absent}, delay : {Absent},
                   when : {Absent}],
      custom : {TRUE}, signal : {FALSE}, baseSignal : {FALSE},
      timeout : {FALSE},
      anySupported : {TRUE}, throws : {"Error"} ]

\* Calls that vary the payload, the schemas and the methods, with no retry.
PayloadInputs ==
    [ globalSchema : FetchSchemas("PUT") \cup {Undefined},
      callSchema : FetchSchemas("PATCH") \cup {Undefined},
      method : {Absent, Str("DELETE")}, baseMethod : {Absent, Str("POST")},
      body : {Undefined, Obj("body")},
      query : {Undefined, Obj("query")},
      params : {Undefined, Obj("params")},
      requestValid : BOOLEAN,
      hooksG : {TRUE}, hooksL : {TRUE},
      baseRetry : {NoRetry}, callRetry : {NoRetry},
      custom : {FALSE}, signal : {FALSE}, baseSignal : {FALSE},
      timeout : {FALSE},
      anySupported : {TRUE}, throws : {"Error"} ]

\* Calls that vary the caller's signal and the timeout.
CancelInputs ==
    [ globalSchema : {Undefined}, callSchema : {Undefined},
      method : {Absent}, baseMethod : {Absent},
      body : {Undefined}, query : {Undefined}, params : {Undefined},
      requestValid : {TRUE},
      hooksG : {TRUE}, hooksL : {TRUE},
      baseRetry : [attempts : [kind : {"const"}, n : 0..MaxAttempts],
                   delay : {Absent}, when : {Absent, CustomWhen}],
      callRetry : {NoRetry},
      custom : {FALSE}, signal : BOOLEAN, baseSignal : {FALSE},
      timeout : BOOLEAN,
      anySupported : {TRUE}, throws : {"Error"} ]

\* Calls that vary the layers of the retry policy.
LayeredRetries ==
    [ attempts : {Absent, [kind |-> "const", n |-> 0],
                  [kind |-> "const", n |-> 1]},
      delay : {Absent, DelayFn},
      when : {Absent, CustomWhen} ]

LayerInputs ==
    [ globalSchema : {Undefined}, callSchema : {Undefined},
      method : {Absent}, baseMethod : {Absent},
      body : {Undefined}, query : {Undefined}, params : {Undefined},
      requestValid : {TRUE},
      hooksG : {TRUE}, hooksL : {FALSE},
      baseRetry : LayeredRetries, callRetry : LayeredRetries,
      custom : {FALSE}, signal : {FALSE}, baseSignal : {FALSE},
      timeout : {FALSE},
      anySupported : {TRUE}, throws : {"Error"} ]

\* Calls of a client whose options carry a signal, with no signal of their
\* own: one retry, the default retry.when or a custom one.
BaseSignalInputs ==
    [ globalSchema : {Undefined}, callSchema : {Undefined},
      method : {Absent}, baseMethod : {Absent},
      body : {Undefined}, query : {Undefined}, params : {Undefined},
      requestValid : {TRUE},
      hooksG : {TRUE}, hooksL : {FALSE},
      baseRetry : [attempts : {[kind |-> "const", n |-> 1]},
                   delay : {Absent}, when : {Absent, CustomWhen}],
      callRetry : {NoRetry},
      custom : {FALSE}, signal : {FALSE}, baseSignal : {TRUE},
      timeout : {FALSE},
      anySupported : {TRUE}, throws : {"Error"} ]

\* Calls under a schema that validates body, query and params, with a falsy
\* body and a query and params that are missing, falsy or objects; with no
\* method (GET, which takes no body but null) or with DELETE.
FalsyInputs ==
    [ globalSchema : {Undefined},
      callSchema : {[body |-> TRUE, query |-> TRUE, params |-> TRUE,
                     response |-> FALSE, method |-> Undefined]},
      method : {Absent, Str("DELETE")}, baseMethod : {Absent},
      body : FalsyValues,
      query : {Undefined, Null, Obj("query")},
      params : {Undefined, Null, Obj("params")},
      requestValid : {TRUE},
      hooksG : {TRUE}, hooksL : {FALSE},
      baseRetry : {NoRetry}, callRetry : {NoRetry},
      custom : {FALSE}, signal : {FALSE}, baseSignal : {FALSE},
      timeout : {FALSE},
      anySupported : {TRUE}, throws : {"Error"} ]

\* Calls on a runtime without AbortSignal.any, with a timeout: one retry.
FallbackInputs ==
    [ globalSchema : {Undefined}, callSchema : {Undefined},
      method : {Absent}, baseMethod : {Absent},
      body : {Undefined}, query : {Undefined}, params : {Undefined},
      requestValid : {TRUE},
      hooksG : {TRUE}, hooksL : {FALSE},
      baseRetry : [attempts : {[kind |-> "const", n |-> 1]},
                   delay : {Absent}, when : {Absent, CustomWhen}],
      callRetry : {NoRetry},
      custom : {FALSE}, signal : BOOLEAN, baseSignal : {FALSE},
      timeout : {TRUE},
      anySupported : {FALSE}, throws : {"Error"} ]

\* Calls whose functions throw something else than a new Error: one retry,
\* retry.attempts a count or a function, retry.delay and retry.when given.
ThrowInputs ==
    [ globalSchema : {Undefined}, callSchema : {ResponseSchema},
      method : {Absent}, baseMethod : {Absent},
      body : {Undefined}, query : {Undefined}, params : {Undefined},
      requestValid : {TRUE},
      hooksG : {TRUE}, hooksL : BOOLEAN,
      baseRetry : [attempts : {Absent}, delay : {DelayFn},
                   when : {CustomWhen}],
      callRetry : [attempts : {[kind |-> "const", n |-> 1],
                               [kind |-> "fn", n |-> 0]},
                   delay : {Absent}, when : {Absent}],
      custom : {TRUE}, signal : {FALSE}, baseSignal : {FALSE},
      timeout : {FALSE},
      anySupported : {TRUE}, throws : ThrowKinds \ {"Error"} ]

Inputs ==
    RetryInputs \cup PayloadInputs \cup CancelInputs \cup LayerInputs
      \cup BaseSignalInputs \cup FalsyInputs \cup FallbackInputs
      \cup ThrowInputs

\* Who can be called during a call, for the counts of invocations.
Callees ==
    { "fetch", "onRequestG", "onRequestL", "onRetryG", "onRetryL",
      "onResponseG", "onResponseL", "onSuccessG", "onSuccessL",
      "onErrorG", "onErrorL",
      "when", "attempts", "delay", "abortableDelay",
      "reject", "parseRejected", "parseResponse" }

\* What a transport call throws: an Error, or a falsy value.
TransportThrows == { ErrorOf("network"), Undefined }

\* A hook was never given an argument.
NotCalled == [t |-> "notcalled"]

\* The history of a call that has done nothing yet.  limit is the latest
\* value of retry.attempts (-1: not read yet); delayArg, retryArgG and
\* retryArgL are the attempt numbers last passed to retry.delay and to the
\* onRetry hooks (0: not called yet); hookFailed counts the attempts in
\* which an onRequest hook threw; flightAbort is the attempt (counted from
\* 1) whose transport call was in flight when the caller's signal fired.
NoHistory ==
    [threw |-> {}, vfail |-> "none", firstOk |-> 0, last |-> "none",
     declined |-> FALSE, errG |-> NotCalled, errL |-> NotCalled,
     okG |-> NotCalled, okL |-> NotCalled,
     delayAbort |-> NotCalled, delayCut |-> "none",
     cancel |-> NotCalled, gLast |-> NotCalled, lSaw |-> NotCalled,
     validated |-> {},
     whenTrue |-> 0, limit |-> -1, within |-> 0, slept |-> 0,
     delayArg |-> 0, retryArgG |-> 0, retryArgL |-> 0,
     rejectArg |-> NotCalled, rejectOut |-> "none", rejected |-> NotCalled,
     respG |-> NotCalled, respL |-> NotCalled,
     hookFailed |-> 0, flightAbort |-> 0,
     out |-> [body |-> Undefined, query |-> Undefined, params |-> Undefined]]

\* signal.aborted is false.
NotAborted == [t |-> "notaborted"]

\* controller.abort(reason): the default AbortError, or a reason the caller
\* chose, which may be falsy.
AbortReasons == { ErrorOf("AbortError"), Null }

\* The reason of an AbortSignal.timeout(ms) that expired.
TimeoutReason == ErrorOf("TimeoutError")

VARIABLES
    cfg,            \* the inputs of the call
    pc,             \* the suspension point the call is at
    opts,           \* reject, parseRejected, parseResponse: as the call read them
    currentOptions, \* create.ts: the clone of the per-call options
    heap,           \* the caller's objects: per-call options, base options,
                    \* schema table, as they are now
    attempt,        \* enhance: let attempt
    request,        \* enhance: let request
    response,       \* enhance: let response
    error,          \* enhance: let error
    data,           \* enhance: parsed, then data
    caught,         \* enhance: err of the post-loop catch
    thrown,         \* create.ts: e of the catch
    settled,        \* the returned promise: pending, resolved, rejected
    result,         \* the value the promise resolved to
    abort,          \* the caller's signal: its reason once it has fired
    baseAbort,      \* the signal of the client's options: its reason
    armed,          \* AbortSignal.timeout timers created so far
    fired,          \* how many of them have expired (in creation order)
    signal,         \* enhance: options.signal, its sources and its reason
    calls,          \* history: invocations of each callee
    hist,           \* history: what happened in the call
    other,          \* the frame of a second call suspended at an await
    pure            \* a utility function applied on its own: arguments, outcome

vars == << cfg, pc, opts, currentOptions, heap, attempt, request, response, error,
           data, caught, thrown, settled, result, abort, baseAbort, armed,
           fired, signal, calls, hist, other, pure >>

\* const schemaDef = globalSchemaDef ?? fetcherOptions?.schema ?? {}
NoSchema ==
    [body |-> FALSE, query |-> FALSE, params |-> FALSE, response |-> FALSE,
     method |-> Undefined]

schemaDefMutCallFirst(c) ==
    IF c.callSchema # Undefined THEN c.callSchema
    ELSE IF c.globalSchema # Undefined THEN c.globalSchema
    ELSE NoSchema

schemaDef(c) ==
    IF c.globalSchema # Undefined THEN c.globalSchema
    ELSE IF c.callSchema # Undefined THEN c.callSchema
    ELSE NoSchema

\* The objects the caller owns, as they were given: the per-call options,
\* the client's options and the schema table.
Owned(c) ==
    [ fetcherOptions |-> [body |-> c.body, query |-> c.query,
                          params |-> c.params, method |-> c.method,
                          retry |-> c.callRetry, schema |-> c.callSchema],
      defaultOpts |-> [method |-> c.baseMethod, retry |-> c.baseRetry],
      schema |-> c.globalSchema ]

Init ==
    /\ cfg \in Inputs
    /\ heap = Owned(cfg)
    /\ pc = "validateBody"
    /\ opts = [reject |-> "unread", parseRejected |-> "unread",
               parseResponse |-> "unread"]
    /\ currentOptions = [body |-> cfg.body, query |-> cfg.query,
                         params |-> cfg.params]
    /\ attempt = 0
    /\ request = Undefined
    /\ response = Undefined
    /\ error = Undefined
    /\ data = Undefined
    /\ caught = Undefined
    /\ thrown = Undefined
    /\ settled = "pending"
    /\ result = Undefined
    /\ abort = NotAborted
    /\ baseAbort = NotAborted
    /\ armed = 0
    /\ fired = 0
    /\ signal = [src |-> {}, reason |-> NotAborted]
    /\ calls = [c \in Callees |-> 0]
    /\ hist = NoHistory
    /\ other = NotCalled
    /\ pure = NotCalled

\* fallbackOptions.retry
FallbackRetry ==
    [ when |-> [kind |-> "default"],
      attempts |-> [kind |-> "const", n |-> DefaultRetryAttempts],
      delay |-> [kind |-> "const", n |-> 0] ]

\* retry: { ...fallbackOptions.retry, ...defaultOpts.retry, ...fetcherOpts?.retry }
retryMutReplace(c) ==
    [ k \in {"when", "attempts", "delay"} |->
        IF c.callRetry # NoRetry THEN Spread(FallbackRetry[k], c.callRetry[k])
        ELSE Spread(FallbackRetry[k], c.baseRetry[k]) ]

retry(c) ==
    [ k \in {"when", "attempts", "delay"} |->
        Spread(Spread(FallbackRetry[k], c.baseRetry[k]), c.callRetry[k]) ]

\* create.ts: method: currentOptions.method || schemaDef.method
fetchOptionsMethod(c) ==
    LET m == IF c.method = Absent THEN Undefined ELSE c.method IN
    IF Truthy(m) THEN m ELSE schemaDef(c).method

\* { ...fallbackOptions, ...defaultOpts, ...fetcherOpts }.method: fetcherOpts
\* is the fetchOptions of fetcher, which always has the key method.
optionsMethod(c) == Spread(Spread(Absent, c.baseMethod), fetchOptionsMethod(c))

\* new Request(url, { method }).method: GET when the member is not there or
\* undefined.
RequestMethod(m) == IF m \in {Absent, Undefined} THEN "GET" ELSE m.s

\* The value a hook, or an option function, throws in this call.
HookError(name) ==
    CASE cfg.throws = "undefined" -> Undefined
      [] cfg.throws = "ResponseError" ->
           ResponseError([message |-> Str(name), response |-> Undefined,
                          request |-> Undefined, data |-> Undefined,
                          originalError |-> Undefined])
      [] OTHER -> ErrorOf(name)

\* The value an onError hook throws, given the error.
OnErrorThrows(given) ==
    IF cfg.throws = "rethrow" THEN given ELSE HookError("onError")

Called(h) == calls' = [calls EXCEPT ![h] = @ + 1]
Threw(src) == [hist EXCEPT !.threw = @ \cup {src}]

\* History: the global hook of lifecycle point h returned or threw; the
\* per-call hook of h is invoked, after that outcome of the global one.
GlobalHook(hs, h, threw) == [hs EXCEPT !.gLast = [hook |-> h, threw |-> threw]]
LocalHook(hs, h) == [hs EXCEPT !.lSaw = [hook |-> h, after |-> hist.gLast],
                               !.gLast = NotCalled]

(***************************************************************************)
(* utils.ts: the signal of an attempt.  A signal is the set of its         *)
(* sources, 0 for the caller's signal and k for the k-th timeout timer,    *)
(* with the reason it was aborted with.                                    *)
(***************************************************************************)
\* 'any' in AbortSignal, on the runtime of the call.
AnySupported == cfg.anySupported

\* withTimeout(signal, timeout), k being the timer that
\* AbortSignal.timeout(timeout) creates in this call of it.
withTimeoutMutShared(hasSignal, hasTimeout, k) ==
    (IF hasSignal THEN {0} ELSE {}) \cup (IF hasTimeout THEN {1} ELSE {})

withTimeout(hasSignal, hasTimeout, k) ==
    IF AnySupported
    THEN (IF hasSignal THEN {0} ELSE {}) \cup (IF hasTimeout THEN {k} ELSE {})
    ELSE IF hasSignal THEN {0} ELSE {}

\* AbortSignal.any(sources) is created aborted when a source already is,
\* with the reason of the first such source.
ReasonOf(src, callerReason, expired) ==
    IF 0 \in src /\ callerReason # NotAborted THEN callerReason
    ELSE IF \E k \in src \ {0} : k <= expired THEN TimeoutReason
    ELSE NotAborted

\* The source `who` aborts with reason r: options.signal follows when it is
\* one of its sources and has not fired yet, and abortableDelay's
\* handleAbort then ends a pending delay: clearTimeout(token);
\* reject(signal.reason), which the loop catches: error = e; break.
SourceAborts(who, r, cut) ==
    LET hit == who \in signal.src /\ signal.reason = NotAborted IN
    /\ signal' = IF hit THEN [signal EXCEPT !.reason = r] ELSE signal
    /\ IF hit /\ pc = "sleep"
       THEN /\ error' = r
            /\ pc' = "post"
            /\ hist' = [Threw("abortableDelay") EXCEPT
                          !.delayCut = cut,
                          !.delayAbort = IF who = 0 THEN calls ELSE @]
       ELSE /\ hist' = [hist EXCEPT
                          !.delayAbort = IF who = 0 /\ pc = "sleep"
                                         THEN calls ELSE @,
                          !.flightAbort = IF who = 0 /\ pc = "inflight"
                                          THEN request.attempt + 1 ELSE @]
            /\ UNCHANGED << error, pc >>

\* controller.abort(reason) on the caller's signal.
Abort ==
    /\ cfg.signal /\ abort = NotAborted /\ pc # "done"
    /\ \E r \in AbortReasons :
         /\ abort' = r
         /\ SourceAborts(0, r, "abort")
    /\ UNCHANGED << cfg, other, pure, baseAbort, heap, opts, currentOptions, attempt, request, response, data,
                    caught, thrown, settled, result, armed, fired, calls >>

\* The signal of the client's options is source -1.
BaseSource == -1

\* controller.abort(reason) on the signal given in the client's options.
AbortBase ==
    /\ cfg.baseSignal /\ baseAbort = NotAborted /\ pc # "done"
    /\ \E r \in AbortReasons :
         /\ baseAbort' = r
         /\ SourceAborts(BaseSource, r, "abort")
    /\ UNCHANGED << cfg, other, pure, heap, abort, opts, currentOptions, attempt,
                    request, response, data, caught, thrown, settled, result,
                    armed, fired, calls >>

\* The oldest timeout timer still running expires.
TimerFire ==
    /\ fired < armed /\ pc # "done"
    /\ fired' = fired + 1
    /\ SourceAborts(fired', TimeoutReason, "timeout")
    /\ UNCHANGED << cfg, other, pure, baseAbort, heap, opts, currentOptions, attempt, request, response, data,
                    caught, thrown, settled, result, abort, armed, calls >>

(***************************************************************************)
(* create.ts, fetcher: request preparation.                                *)
(***************************************************************************)
\* const currentOptions = { ...fetcherOptions }: the object that the
\* assignments to currentOptions.body, .query and .params write to is a new
\* one, not the caller's.
currentOptionsObjectMutAlias == "fetcherOptions"

currentOptionsObject == "currentOptions"

\* currentOptions[part] = value, as the caller's objects see it.
Assigned(part, value) ==
    IF currentOptionsObject = "fetcherOptions"
    THEN [heap EXCEPT !.fetcherOptions[part] = value]
    ELSE heap

\* schemaDef[part] && currentOptions[part]
ShouldValidateMutAlways(part) ==
    schemaDef(cfg)[part]

ShouldValidate(part) ==
    schemaDef(cfg)[part] /\ Truthy(currentOptions[part])

\* if (schemaDef[part] && currentOptions[part])
\*     currentOptions[part] = await validate(schemaDef[part], currentOptions[part])
ValidatePartMutSend(part, next) ==
    IF ShouldValidate(part)
    THEN \E res \in SchemaResults(currentOptions[part]) :
           LET v == validate(res, currentOptions[part]) IN
           IF v.threw
           THEN /\ pc' = next
                /\ hist' = [hist EXCEPT !.vfail = part,
                                        !.validated = @ \cup {part}]
                /\ UNCHANGED << currentOptions, heap, thrown >>
           ELSE /\ currentOptions' = [currentOptions EXCEPT ![part] = v.value]
                /\ heap' = Assigned(part, v.value)
                /\ pc' = next
                /\ hist' = [hist EXCEPT !.validated = @ \cup {part},
                                        !.out[part] = res.value]
                /\ UNCHANGED thrown
    ELSE /\ pc' = next
         /\ UNCHANGED << currentOptions, heap, thrown, hist >>

ValidatePart(part, next) ==
    IF ShouldValidate(part)
    THEN \E res \in SchemaResults(currentOptions[part]) :
           LET v == validate(res, currentOptions[part]) IN
           IF v.threw
           THEN /\ thrown' = v.value
                /\ pc' = "catch"
                /\ hist' = [hist EXCEPT !.vfail = part,
                                        !.validated = @ \cup {part}]
                /\ UNCHANGED << currentOptions, heap >>
           ELSE /\ currentOptions' = [currentOptions EXCEPT ![part] = v.value]
                /\ heap' = Assigned(part, v.value)
                /\ pc' = next
                /\ hist' = [hist EXCEPT !.validated = @ \cup {part},
                                        !.out[part] = res.value]
                /\ UNCHANGED thrown
    ELSE /\ pc' = next
         /\ UNCHANGED << currentOptions, heap, thrown, hist >>

ValidateBody ==
    /\ pc = "validateBody"
    /\ ValidatePart("body", "validateQuery")
    /\ UNCHANGED << cfg, other, pure, baseAbort, abort, armed, fired, signal, opts, attempt, request, response, error, data, caught,
                    settled, result, calls >>

ValidateQuery ==
    /\ pc = "validateQuery"
    /\ ValidatePart("query", "validateParams")
    /\ UNCHANGED << cfg, other, pure, baseAbort, abort, armed, fired, signal, opts, attempt, request, response, error, data, caught,
                    settled, result, calls >>

ValidateParams ==
    /\ pc = "validateParams"
    /\ ValidatePart("params", "enhance")
    /\ UNCHANGED << cfg, other, pure, baseAbort, abort, armed, fired, signal, opts, attempt, request, response, error, data, caught,
                    settled, result, calls >>

(***************************************************************************)
(* enhance.ts: the executor.                                               *)
(***************************************************************************)
\* value !== null && typeof value === 'object'
\*   && value.constructor?.name === 'Object'
isPlainObject(value) == value.t = "object"

\* isPlainObject(value) || Array.isArray(value) || (typeof value === 'object'
\*   && value !== null && 'toJSON' in value && typeof value.toJSON === 'function')
isSerializable(value) ==
    isPlainObject(value) \/ value.t = "array" \/ value.t = "toJSON"

\* JSON.stringify(body) of the serializable bodies of the model.
JSONStringify(body) ==
    Str(CASE body.t = "object" -> "{\"k\":\"" \o body.k \o "\"}"
          [] body.t = "array" -> "[]"
          [] OTHER -> "\"json\"")

\* fallbackOptions.serializeBody
serializeBody(body) ==
    IF body.t = "FormData" THEN body
    ELSE IF isSerializable(body) THEN JSONStringify(body)
    ELSE body

\* options.body = originalBody === null || originalBody === undefined
\*     ? originalBody : options.serializeBody(originalBody)
optionsBody(originalBody) ==
    IF originalBody = Null \/ originalBody = Undefined THEN originalBody
    ELSE serializeBody(originalBody)

\* new Request(url, init): the TypeError it throws, or undefined: the URL
\* does not parse, or init.body is neither null nor undefined while the
\* method is GET or HEAD.
RequestError(valid, method, body) ==
    IF ~valid THEN ErrorOf("Invalid URL")
    ELSE IF method \in {"GET", "HEAD"} /\ body \notin {Null, Undefined}
         THEN ErrorOf("Request with GET/HEAD method cannot have body.")
         ELSE Undefined

\* Lines 631-672: the options are merged; attempt = 0, response and error
\* are not set.
Enhance ==
    /\ pc = "enhance"
    /\ attempt' = 0
    /\ response' = Undefined
    /\ error' = Undefined
    /\ pc' = "newRequest"
    /\ UNCHANGED << cfg, other, pure, baseAbort, heap, abort, armed, fired, signal, opts, currentOptions, request, data, caught, thrown,
                    settled, result, calls, hist >>

\* Lines 676-689, outside every try of enhance: a Request the platform
\* refuses throws out of enhance.  The Request is built of the body of the
\* options that fetcher passed (fetcherOpts?.body), of their params (the
\* query of currentOptions) and of the URL that fetcher made with the params
\* of currentOptions.
NewRequest ==
    /\ pc = "newRequest"
    /\ armed' = IF AnySupported /\ cfg.timeout THEN armed + 1 ELSE armed
    /\ signal' = LET src == withTimeout(cfg.signal, cfg.timeout, armed') IN
                 [src |-> src, reason |-> ReasonOf(src, abort, fired)]
    /\ LET refused == RequestError(cfg.requestValid,
                                   RequestMethod(optionsMethod(cfg)),
                                   optionsBody(currentOptions.body))
       IN  IF refused = Undefined
           THEN /\ request' = [t |-> "Request", attempt |-> attempt,
                                method |-> RequestMethod(optionsMethod(cfg)),
                                built |-> [body |-> currentOptions.body,
                                           query |-> currentOptions.query,
                                           params |-> currentOptions.params]]
                /\ pc' = "onRequestG"
                /\ UNCHANGED << thrown, hist >>
           ELSE /\ thrown' = refused
                /\ pc' = "catch"
                /\ hist' = Threw("Request")
                /\ UNCHANGED request
    /\ UNCHANGED << cfg, other, pure, baseAbort, heap, abort, fired, opts, currentOptions, attempt, response, error, data,
                    caught, settled, result, calls >>

\* A hook of the first try block (onRequest): a throw is the attempt's error.
\* await defaultOpts.onRequest?.(request)
OnRequestGMutFatal ==
    /\ pc = "onRequestG"
    /\ IF cfg.hooksG
       THEN /\ Called("onRequestG")
            /\ \/ /\ pc' = "onRequestL"
                  /\ hist' = GlobalHook(hist, "onRequest", FALSE)
                  /\ UNCHANGED error
               \/ /\ error' = HookError("onRequest")
                  /\ pc' = "post"
                  /\ hist' = GlobalHook([Threw("onRequest") EXCEPT
                                         !.last = "none",
                                         !.hookFailed = @ + 1],
                                      "onRequest", TRUE)
       ELSE /\ pc' = "onRequestL"
            /\ UNCHANGED << error, hist, calls >>
    /\ UNCHANGED << cfg, other, pure, baseAbort, heap, abort, armed, fired, signal, opts, currentOptions, attempt, request, response, data,
                    caught, thrown, settled, result >>

OnRequestG ==
    /\ pc = "onRequestG"
    /\ IF cfg.hooksG
       THEN /\ Called("onRequestG")
            /\ \/ /\ pc' = "onRequestL"
                  /\ hist' = GlobalHook(hist, "onRequest", FALSE)
                  /\ UNCHANGED error
               \/ /\ error' = HookError("onRequest")
                  /\ pc' = "when"
                  /\ hist' = GlobalHook([Threw("onRequest") EXCEPT
                                         !.last = "none",
                                         !.hookFailed = @ + 1],
                                      "onRequest", TRUE)
       ELSE /\ pc' = "onRequestL"
            /\ UNCHANGED << error, hist, calls >>
    /\ UNCHANGED << cfg, other, pure, baseAbort, heap, abort, armed, fired, signal, opts, currentOptions, attempt, request, response, data,
                    caught, thrown, settled, result >>

\* await fetcherOpts?.onRequest?.(request)
OnRequestL ==
    /\ pc = "onRequestL"
    /\ IF cfg.hooksL
       THEN /\ Called("onRequestL")
            /\ \/ /\ pc' = "fetch"
                  /\ hist' = LocalHook(hist, "onRequest")
                  /\ UNCHANGED error
               \/ /\ error' = HookError("onRequest")
                  /\ pc' = "when"
                  /\ hist' = LocalHook([Threw("onRequest") EXCEPT
                                        !.last = "none",
                                        !.hookFailed = @ + 1],
                                     "onRequest")
       ELSE /\ pc' = "fetch"
            /\ UNCHANGED << error, hist, calls >>
    /\ UNCHANGED << cfg, other, pure, baseAbort, heap, abort, armed, fired, signal, opts, currentOptions, attempt, request, response, data,
                    caught, thrown, settled, result >>

\* fetchFn(request, { ...omit(options, ['body']), headers }): the transport
\* is invoked with the request and the signal of this attempt.
Fetch ==
    /\ pc = "fetch"
    /\ Called("fetch")
    /\ pc' = "inflight"
    /\ UNCHANGED << cfg, other, pure, baseAbort, heap, abort, armed, fired, signal, opts, currentOptions,
                    attempt, request, response, error, data, caught, thrown,
                    settled, result, hist >>

\* response = await fetchFn(...); error = undefined
\* catch (e) { error = e }: response keeps the value it had.
\* The transport answers, or throws; once its signal has fired it may throw
\* the signal's reason.
FetchSettle ==
    /\ pc = "inflight"
    /\ \/ \E st \in Statuses, b \in Bodies :
            /\ response' = ResponseOf(st, b, attempt)
            /\ error' = Undefined
            /\ hist' = [hist EXCEPT
                 !.last = IF ResponseOk(response') THEN "ok" ELSE "bad",
                 !.firstOk = IF @ = 0 /\ ResponseOk(response')
                             THEN calls["fetch"] ELSE @]
       \/ \E e \in TransportThrows :
            /\ error' = e
            /\ hist' = [Threw("fetch") EXCEPT !.last = "throw"]
            /\ UNCHANGED response
       \/ /\ signal.reason # NotAborted
          /\ error' = signal.reason
          /\ hist' = [Threw("fetch") EXCEPT
                        !.last = "throw",
                        !.cancel = [attempt |-> attempt, src |-> signal.src,
                                    caller |-> abort # NotAborted,
                                    expired |-> fired]]
          /\ UNCHANGED response
    /\ pc' = "when"
    /\ UNCHANGED << cfg, other, pure, baseAbort, heap, abort, armed, fired, signal, opts, currentOptions,
                    attempt, request, data, caught, thrown, settled, result,
                    calls >>

\* The attempt did not end with an ok response.
AttemptFailed == hist.last # "ok"

\* !(await options.retry.when({ request, response, error })): break.
\* A throw of the second try block: error = e; break.
RetryWhenMutEager ==
    /\ pc = "when"
    /\ calls' = [calls EXCEPT !["when"] = @ + 1,
                              !["attempts"] = @ + 1]
    /\ IF retry(cfg).when.kind = "default"
       THEN IF DefaultRetryWhen([request |-> request, response |-> response,
                                 error |-> error])
            THEN /\ pc' = "attempts"
                 /\ hist' = [hist EXCEPT !.whenTrue = @ + 1]
                 /\ UNCHANGED error
            ELSE /\ pc' = "post"
                 /\ hist' = [hist EXCEPT !.declined = @ \/ AttemptFailed]
                 /\ UNCHANGED error
       ELSE \/ /\ pc' = "attempts"
               /\ hist' = [hist EXCEPT !.whenTrue = @ + 1]
               /\ UNCHANGED error
            \/ /\ pc' = "post"
               /\ hist' = [hist EXCEPT !.declined = @ \/ AttemptFailed]
               /\ UNCHANGED error
            \/ /\ error' = HookError("when")
               /\ pc' = "post"
               /\ hist' = [Threw("when") EXCEPT !.declined = @ \/ AttemptFailed]
    /\ UNCHANGED << cfg, other, pure, baseAbort, heap, abort, armed, fired, signal, opts, currentOptions, attempt, request, response, data,
                    caught, thrown, settled, result >>

RetryWhen ==
    /\ pc = "when"
    /\ Called("when")
    /\ IF retry(cfg).when.kind = "default"
       THEN IF DefaultRetryWhen([request |-> request, response |-> response,
                                 error |-> error])
            THEN /\ pc' = "attempts"
                 /\ hist' = [hist EXCEPT !.whenTrue = @ + 1]
                 /\ UNCHANGED error
            ELSE /\ pc' = "post"
                 /\ hist' = [hist EXCEPT !.declined = @ \/ AttemptFailed]
                 /\ UNCHANGED error
       ELSE \/ /\ pc' = "attempts"
               /\ hist' = [hist EXCEPT !.whenTrue = @ + 1]
               /\ UNCHANGED error
            \/ /\ pc' = "post"
               /\ hist' = [hist EXCEPT !.declined = @ \/ AttemptFailed]
               /\ UNCHANGED error
            \/ /\ error' = HookError("when")
               /\ pc' = "post"
               /\ hist' = [Threw("when") EXCEPT !.declined = @ \/ AttemptFailed]
    /\ UNCHANGED << cfg, other, pure, baseAbort, heap, abort, armed, fired, signal, opts, currentOptions, attempt, request, response, data,
                    caught, thrown, settled, result >>

\* ++attempt > (typeof attempts === 'function'
\*                ? await attempts({ request }) : attempts): break.
ExceedsMutOffByOne(n, limit) == n > limit + 1
ExceedsMutEarly(n, limit) == n >= limit

Exceeds(n, limit) == n > limit

\* History: retry.attempts was read as n at a retry decision.
Limit(hs, n) ==
    [hs EXCEPT !.limit = n,
               !.within = IF Exceeds(attempt + 1, n) THEN @ ELSE @ + 1]

RetryAttemptsMutNoCount ==
    /\ pc = "attempts"
    /\ attempt' = attempt
    /\ IF retry(cfg).attempts.kind = "const"
       THEN /\ pc' = IF Exceeds(attempt', retry(cfg).attempts.n)
                     THEN "post" ELSE "delay"
            /\ hist' = Limit(hist, retry(cfg).attempts.n)
            /\ UNCHANGED << error, calls >>
       ELSE /\ Called("attempts")
            /\ \/ \E n \in 0..MaxAttempts :
                    /\ pc' = IF Exceeds(attempt', n) THEN "post" ELSE "delay"
                    /\ hist' = Limit(hist, n)
                    /\ UNCHANGED error
               \/ /\ error' = HookError("attempts")
                  /\ pc' = "post"
                  /\ hist' = Threw("attempts")
    /\ UNCHANGED << cfg, other, pure, baseAbort, heap, abort, armed, fired, signal, opts, currentOptions, request, response, data, caught,
                    thrown, settled, result >>

RetryAttempts ==
    /\ pc = "attempts"
    /\ attempt' = attempt + 1
    /\ IF retry(cfg).attempts.kind = "const"
       THEN /\ pc' = IF Exceeds(attempt', retry(cfg).attempts.n)
                     THEN "post" ELSE "delay"
            /\ hist' = Limit(hist, retry(cfg).attempts.n)
            /\ UNCHANGED << error, calls >>
       ELSE /\ Called("attempts")
            /\ \/ \E n \in 0..MaxAttempts :
                    /\ pc' = IF Exceeds(attempt', n) THEN "post" ELSE "delay"
                    /\ hist' = Limit(hist, n)
                    /\ UNCHANGED error
               \/ /\ error' = HookError("attempts")
                  /\ pc' = "post"
                  /\ hist' = Threw("attempts")
    /\ UNCHANGED << cfg, other, pure, baseAbort, heap, abort, armed, fired, signal, opts, currentOptions, request, response, data, caught,
                    thrown, settled, result >>

\* const retryCtx = { attempt, request, response, error }: the attempt number
\* that retry.delay and the onRetry hooks are given.
retryCtxAttemptMutZeroBased == attempt - 1

retryCtxAttempt == attempt

\* typeof delay === 'function' ? await delay(retryCtx) : delay, and then
\* abortableDelay(delay, options.signal) is called: the delay is pending.
RetryDelay ==
    /\ pc = "delay"
    /\ IF retry(cfg).delay.kind = "fn"
       THEN \/ /\ pc' = "sleep"
               /\ calls' = [calls EXCEPT !["delay"] = @ + 1,
                                         !["abortableDelay"] = @ + 1]
               /\ hist' = [hist EXCEPT !.delayArg = retryCtxAttempt]
               /\ UNCHANGED error
            \/ /\ error' = HookError("delay")
               /\ pc' = "post"
               /\ Called("delay")
               /\ hist' = [Threw("delay") EXCEPT !.delayArg = retryCtxAttempt]
       ELSE /\ pc' = "sleep"
            /\ Called("abortableDelay")
            /\ UNCHANGED << error, hist >>
    /\ UNCHANGED << cfg, other, pure, baseAbort, heap, abort, armed, fired, signal, opts, currentOptions, attempt, request, response, data,
                    caught, thrown, settled, result >>

\* await abortableDelay(delay, options.signal)
Sleep ==
    /\ pc = "sleep"
    /\ pc' = "onRetryG"
    /\ hist' = [hist EXCEPT !.slept = @ + 1]
    /\ UNCHANGED << cfg, other, pure, baseAbort, heap, abort, armed, fired, signal, opts, currentOptions, attempt, request, response, error,
                    data, caught, thrown, settled, result, calls >>

\* await defaultOpts.onRetry?.(retryCtx)
OnRetryG ==
    /\ pc = "onRetryG"
    /\ IF cfg.hooksG
       THEN /\ Called("onRetryG")
            /\ \/ /\ pc' = "onRetryL"
                  /\ hist' = GlobalHook([hist EXCEPT !.retryArgG = retryCtxAttempt],
                                      "onRetry", FALSE)
                  /\ UNCHANGED error
               \/ /\ error' = HookError("onRetry")
                  /\ pc' = "post"
                  /\ hist' = GlobalHook([Threw("onRetry") EXCEPT
                                         !.retryArgG = retryCtxAttempt],
                                      "onRetry", TRUE)
       ELSE /\ pc' = "onRetryL"
            /\ UNCHANGED << error, hist, calls >>
    /\ UNCHANGED << cfg, other, pure, baseAbort, heap, abort, armed, fired, signal, opts, currentOptions, attempt, request, response, data,
                    caught, thrown, settled, result >>

\* await fetcherOpts?.onRetry?.(retryCtx); then the next turn of the loop.
OnRetryL ==
    /\ pc = "onRetryL"
    /\ IF cfg.hooksL
       THEN /\ Called("onRetryL")
            /\ \/ /\ pc' = "newRequest"
                  /\ hist' = LocalHook([hist EXCEPT !.retryArgL = retryCtxAttempt],
                                     "onRetry")
                  /\ UNCHANGED error
               \/ /\ error' = HookError("onRetry")
                  /\ pc' = "post"
                  /\ hist' = LocalHook([Threw("onRetry") EXCEPT
                                        !.retryArgL = retryCtxAttempt],
                                     "onRetry")
       ELSE /\ pc' = "newRequest"
            /\ UNCHANGED << error, hist, calls >>
    /\ UNCHANGED << cfg, other, pure, baseAbort, heap, abort, armed, fired, signal, opts, currentOptions, attempt, request, response, data,
                    caught, thrown, settled, result >>

(***************************************************************************)
(* enhance.ts: after the loop.                                             *)
(***************************************************************************)
\* if (error) throw error
Post ==
    /\ pc = "post"
    /\ IF Truthy(error)
       THEN /\ caught' = error
            /\ pc' = "onErrorG"
       ELSE /\ pc' = "reject"
            /\ UNCHANGED caught
    /\ UNCHANGED << cfg, other, pure, baseAbort, heap, abort, armed, fired, signal, opts, currentOptions, attempt, request, response, error,
                    data, thrown, settled, result, calls, hist >>

\* An option function is the fallback or the configured one.
OptionKinds == IF cfg.custom THEN {"default", "custom"} ELSE {"default"}

\* if (await options.reject(response))
Reject ==
    /\ pc = "reject"
    /\ Called("reject")
    /\ \E kind \in OptionKinds :
         /\ opts' = [opts EXCEPT !.reject = kind]
         /\ IF kind = "default"
            THEN /\ pc' = IF DefaultReject(response)
                          THEN "parseRejected" ELSE "onResponseG"
                 /\ hist' = [hist EXCEPT
                      !.rejectArg = response,
                      !.rejectOut = IF DefaultReject(response)
                                    THEN "true" ELSE "false"]
                 /\ UNCHANGED caught
            ELSE \/ /\ pc' = "parseRejected"
                    /\ hist' = [hist EXCEPT !.rejectArg = response,
                                            !.rejectOut = "true"]
                    /\ UNCHANGED caught
                 \/ /\ pc' = "onResponseG"
                    /\ hist' = [hist EXCEPT !.rejectArg = response,
                                            !.rejectOut = "false"]
                    /\ UNCHANGED caught
                 \/ /\ caught' = HookError("reject")
                    /\ pc' = "onErrorG"
                    /\ hist' = [Threw("reject") EXCEPT
                                  !.rejectArg = response,
                                  !.rejectOut = "threw"]
    /\ UNCHANGED << cfg, other, pure, baseAbort, heap, abort, armed, fired, signal, currentOptions, attempt, request, response, error,
                    data, thrown, settled, result >>

\* What a custom parseRejected returns: a plain object, as the README's
\* does, or nothing.
CustomRejected == { Obj("rejected"), Undefined }

\* throw await options.parseRejected(response, request)
ParseRejected ==
    /\ pc = "parseRejected"
    /\ Called("parseRejected")
    /\ \E kind \in OptionKinds :
         /\ opts' = [opts EXCEPT !.parseRejected = kind]
         /\ IF kind = "default"
            THEN /\ caught' = DefaultParseRejected(response, request)
                 /\ hist' = [hist EXCEPT !.rejected = caught']
            ELSE \/ /\ caught' \in CustomRejected
                    /\ hist' = [hist EXCEPT !.rejected = caught']
                 \/ /\ caught' = HookError("parseRejected")
                    /\ hist' = Threw("parseRejected")
    /\ pc' = "onErrorG"
    /\ UNCHANGED << cfg, other, pure, baseAbort, heap, abort, armed, fired, signal, currentOptions, attempt, request, response, error,
                    data, thrown, settled, result >>

\* await defaultOpts.onResponse?.(response, request)
OnResponseG ==
    /\ pc = "onResponseG"
    /\ IF cfg.hooksG
       THEN /\ Called("onResponseG")
            /\ \/ /\ pc' = "onResponseL"
                  /\ hist' = GlobalHook([hist EXCEPT !.respG = response],
                                      "onResponse", FALSE)
                  /\ UNCHANGED caught
               \/ /\ caught' = HookError("onResponse")
                  /\ pc' = "onErrorG"
                  /\ hist' = GlobalHook([Threw("onResponse") EXCEPT
                                         !.respG = response],
                                      "onResponse", TRUE)
       ELSE /\ pc' = "onResponseL"
            /\ UNCHANGED << caught, hist, calls >>
    /\ UNCHANGED << cfg, other, pure, baseAbort, heap, abort, armed, fired, signal, opts, currentOptions, attempt, request, response, error,
                    data, thrown, settled, result >>

\* await fetcherOpts?.onResponse?.(response, request)
OnResponseL ==
    /\ pc = "onResponseL"
    /\ IF cfg.hooksL
       THEN /\ Called("onResponseL")
            /\ \/ /\ pc' = "parseResponse"
                  /\ hist' = LocalHook([hist EXCEPT !.respL = response],
                                     "onResponse")
                  /\ UNCHANGED caught
               \/ /\ caught' = HookError("onResponse")
                  /\ pc' = "onErrorG"
                  /\ hist' = LocalHook([Threw("onResponse") EXCEPT
                                        !.respL = response],
                                     "onResponse")
       ELSE /\ pc' = "parseResponse"
            /\ UNCHANGED << caught, hist, calls >>
    /\ UNCHANGED << cfg, other, pure, baseAbort, heap, abort, armed, fired, signal, opts, currentOptions, attempt, request, response, error,
                    data, thrown, settled, result >>

\* What a custom parseResponse returns: a value, or nothing.
CustomParsed == { Obj("parsed"), Undefined }

\* const parsed = await options.parseResponse(response, request)
ParseResponse ==
    /\ pc = "parseResponse"
    /\ Called("parseResponse")
    /\ \E kind \in OptionKinds :
         /\ opts' = [opts EXCEPT !.parseResponse = kind]
         /\ IF kind = "default"
            THEN /\ data' = DefaultParseResponse(response)
                 /\ pc' = "validateResponse"
                 /\ UNCHANGED << caught, hist >>
            ELSE \/ /\ data' \in CustomParsed
                    /\ pc' = "validateResponse"
                    /\ UNCHANGED << caught, hist >>
                 \/ /\ caught' = HookError("parseResponse")
                    /\ pc' = "onErrorG"
                    /\ hist' = Threw("parseResponse")
                    /\ UNCHANGED data
    /\ UNCHANGED << cfg, other, pure, baseAbort, heap, abort, armed, fired, signal, currentOptions, attempt, request, response, error,
                    thrown, settled, result >>

\* const data = schema ? await validate(schema, parsed) : parsed
\* (schema is fetcherOpts.schema, the response validator of schemaDef)
ValidateResponseMutRetry ==
    /\ pc = "validateResponse"
    /\ IF schemaDef(cfg).response
       THEN \E res \in SchemaResults(data) :
              LET v == validate(res, data) IN
              IF v.threw
              THEN /\ error' = v.value
                   /\ pc' = "when"
                   /\ hist' = [hist EXCEPT !.vfail = "response",
                                           !.validated = @ \cup {"response"}]
                   /\ UNCHANGED << data, caught >>
              ELSE /\ data' = v.value
                   /\ pc' = "onSuccessG"
                   /\ hist' = [hist EXCEPT !.validated = @ \cup {"response"}]
                   /\ UNCHANGED << caught, error >>
       ELSE /\ pc' = "onSuccessG"
            /\ UNCHANGED << data, caught, hist, error >>
    /\ UNCHANGED << cfg, other, pure, baseAbort, heap, abort, armed, fired, signal, opts, currentOptions, attempt, request, response,
                    thrown, settled, result, calls >>

ValidateResponse ==
    /\ pc = "validateResponse"
    /\ IF schemaDef(cfg).response
       THEN \E res \in SchemaResults(data) :
              LET v == validate(res, data) IN
              IF v.threw
              THEN /\ caught' = v.value
                   /\ pc' = "onErrorG"
                   /\ hist' = [hist EXCEPT !.vfail = "response",
                                           !.validated = @ \cup {"response"}]
                   /\ UNCHANGED data
              ELSE /\ data' = v.value
                   /\ pc' = "onSuccessG"
                   /\ hist' = [hist EXCEPT !.validated = @ \cup {"response"}]
                   /\ UNCHANGED caught
       ELSE /\ pc' = "onSuccessG"
            /\ UNCHANGED << data, caught, hist >>
    /\ UNCHANGED << cfg, other, pure, baseAbort, heap, abort, armed, fired, signal, opts, currentOptions, attempt, request, response, error,
                    thrown, settled, result, calls >>

\* await defaultOpts.onSuccess?.(data, request)
OnSuccessGMutSkip ==
    /\ pc = "onSuccessG"
    /\ pc' = "onSuccessL"
    /\ UNCHANGED << cfg, other, pure, baseAbort, heap, abort, armed, fired, signal, opts, currentOptions, attempt, request, response, error,
                    data, caught, thrown, settled, result, calls, hist >>

OnSuccessG ==
    /\ pc = "onSuccessG"
    /\ IF cfg.hooksG
       THEN /\ Called("onSuccessG")
            /\ \/ /\ pc' = "onSuccessL"
                  /\ hist' = GlobalHook([hist EXCEPT !.okG = data],
                                      "onSuccess", FALSE)
                  /\ UNCHANGED caught
               \/ /\ caught' = HookError("onSuccess")
                  /\ pc' = "onErrorG"
                  /\ hist' = GlobalHook([Threw("onSuccess") EXCEPT !.okG = data],
                                      "onSuccess", TRUE)
       ELSE /\ pc' = "onSuccessL"
            /\ UNCHANGED << caught, hist, calls >>
    /\ UNCHANGED << cfg, other, pure, baseAbort, heap, abort, armed, fired, signal, opts, currentOptions, attempt, request, response, error,
                    data, thrown, settled, result >>

\* await fetcherOpts?.onSuccess?.(data, request); return data
OnSuccessL ==
    /\ pc = "onSuccessL"
    /\ IF cfg.hooksL
       THEN /\ Called("onSuccessL")
            /\ \/ /\ pc' = "return"
                  /\ hist' = LocalHook([hist EXCEPT !.okL = data], "onSuccess")
                  /\ UNCHANGED caught
               \/ /\ caught' = HookError("onSuccess")
                  /\ pc' = "onErrorG"
                  /\ hist' = LocalHook([Threw("onSuccess") EXCEPT !.okL = data],
                                     "onSuccess")
       ELSE /\ pc' = "return"
            /\ UNCHANGED << caught, hist, calls >>
    /\ UNCHANGED << cfg, other, pure, baseAbort, heap, abort, armed, fired, signal, opts, currentOptions, attempt, request, response, error,
                    data, thrown, settled, result >>

\* catch (err) { await defaultOpts.onError?.(err, request)
OnErrorGMutContinue ==
    /\ pc = "onErrorG"
    /\ IF cfg.hooksG
       THEN /\ Called("onErrorG")
            /\ \/ /\ pc' = "onErrorL"
                  /\ hist' = GlobalHook([hist EXCEPT !.errG = caught],
                                      "onError", FALSE)
                  /\ UNCHANGED thrown
               \/ /\ thrown' = OnErrorThrows(caught)
                  /\ pc' = "onErrorL"
                  /\ hist' = GlobalHook([Threw("onError") EXCEPT !.errG = caught],
                                      "onError", TRUE)
       ELSE /\ pc' = "onErrorL"
            /\ UNCHANGED << thrown, hist, calls >>
    /\ UNCHANGED << cfg, other, pure, baseAbort, heap, abort, armed, fired, signal, opts, currentOptions, attempt, request, response, error,
                    data, caught, settled, result >>

OnErrorG ==
    /\ pc = "onErrorG"
    /\ IF cfg.hooksG
       THEN /\ Called("onErrorG")
            /\ \/ /\ pc' = "onErrorL"
                  /\ hist' = GlobalHook([hist EXCEPT !.errG = caught],
                                      "onError", FALSE)
                  /\ UNCHANGED thrown
               \/ /\ thrown' = OnErrorThrows(caught)
                  /\ pc' = "catch"
                  /\ hist' = GlobalHook([Threw("onError") EXCEPT !.errG = caught],
                                      "onError", TRUE)
       ELSE /\ pc' = "onErrorL"
            /\ UNCHANGED << thrown, hist, calls >>
    /\ UNCHANGED << cfg, other, pure, baseAbort, heap, abort, armed, fired, signal, opts, currentOptions, attempt, request, response, error,
                    data, caught, settled, result >>

\* await fetcherOpts?.onError?.(err, request); throw err }
OnErrorL ==
    /\ pc = "onErrorL"
    /\ IF cfg.hooksL
       THEN /\ Called("onErrorL")
            /\ \/ /\ thrown' = caught
                  /\ hist' = LocalHook([hist EXCEPT !.errL = caught], "onError")
               \/ /\ thrown' = OnErrorThrows(caught)
                  /\ hist' = LocalHook([Threw("onError") EXCEPT !.errL = caught],
                                     "onError")
       ELSE /\ thrown' = caught
            /\ UNCHANGED << hist, calls >>
    /\ pc' = "catch"
    /\ UNCHANGED << cfg, other, pure, baseAbort, heap, abort, armed, fired, signal, opts, currentOptions, attempt, request, response, error,
                    data, caught, settled, result >>

(***************************************************************************)
(* create.ts, fetcher: the result.                                         *)
(***************************************************************************)
\* const data = await enhancedFetch(actualUrl, fetchOptions); return ok(data)
Return ==
    /\ pc = "return"
    /\ result' = ok(data)
    /\ settled' = "resolved"
    /\ pc' = "done"
    /\ UNCHANGED << cfg, other, pure, baseAbort, heap, abort, armed, fired, signal, opts, currentOptions, attempt, request, response, error,
                    data, caught, thrown, calls, hist >>

\* catch (e): a ValidationError or a ResponseError as it is, anything else
\* wrapped in a new ResponseError.
fetcherCatch(e) ==
    IF isValidationError(e) THEN [settled |-> "resolved", result |-> err(e)]
    ELSE IF isResponseError(e) THEN [settled |-> "resolved", result |-> err(e)]
    ELSE [settled |-> "resolved",
          result |-> err(ResponseError(
              [originalError |-> e,
               message |-> IF InstanceOfError(e) THEN Str(e.message) ELSE Str(""),
               response |-> Undefined, request |-> Undefined,
               data |-> Undefined]))]

Catch ==
    /\ pc = "catch"
    /\ result' = fetcherCatch(thrown).result
    /\ settled' = fetcherCatch(thrown).settled
    /\ pc' = "done"
    /\ UNCHANGED << cfg, other, pure, baseAbort, heap, abort, armed, fired, signal, opts, currentOptions, attempt, request, response, error,
                    data, caught, thrown, calls, hist >>

Next ==
    \/ ValidateBody \/ ValidateQuery \/ ValidateParams
    \/ Enhance \/ NewRequest \/ OnRequestG \/ OnRequestL \/ Fetch \/ FetchSettle
    \/ Abort \/ AbortBase \/ TimerFire
    \/ RetryWhen \/ RetryAttempts \/ RetryDelay \/ Sleep \/ OnRetryG \/ OnRetryL
    \/ Post \/ Reject \/ ParseRejected \/ OnResponseG \/ OnResponseL
    \/ ParseResponse \/ ValidateResponse \/ OnSuccessG \/ OnSuccessL
    \/ OnErrorG \/ OnErrorL \/ Return \/ Catch

Spec == Init /\ [][Next]_vars

(***************************************************************************)
(* Two calls through one client, interleaved at their awaits.              *)
(***************************************************************************)
\* What createResfetch keeps for every call of the client: defaultOpts and
\* the schema table.
Base(c) ==
    [ globalSchema |-> c.globalSchema, hooksG |-> c.hooksG,
      baseRetry |-> c.baseRetry, baseMethod |-> c.baseMethod,
      baseSignal |-> c.baseSignal ]

\* The execution frame of the running call: the locals of fetcher and of the
\* async function enhance returns, with the call's signal and its timers.
Frame(id) ==
    [ id |-> id,
      cfg |-> cfg,
      pc |-> pc,
      opts |-> opts,
      currentOptions |-> currentOptions,
      heap |-> heap,
      attempt |-> attempt,
      request |-> request,
      response |-> response,
      error |-> error,
      data |-> data,
      caught |-> caught,
      thrown |-> thrown,
      settled |-> settled,
      result |-> result,
      abort |-> abort,
      armed |-> armed,
      fired |-> fired,
      signal |-> signal,
      calls |-> calls,
      hist |-> hist ]

\* The frame of a call that has just been made with the inputs c.
StartFrame(id, c) ==
    [ id |-> id,
      cfg |-> c,
      pc |-> "validateBody",
      opts |-> [reject |-> "unread", parseRejected |-> "unread",
                parseResponse |-> "unread"],
      currentOptions |-> [body |-> c.body, query |-> c.query,
                          params |-> c.params],
      heap |-> Owned(c),
      attempt |-> 0,
      request |-> Undefined,
      response |-> Undefined,
      error |-> Undefined,
      data |-> Undefined,
      caught |-> Undefined,
      thrown |-> Undefined,
      settled |-> "pending",
      result |-> Undefined,
      abort |-> NotAborted,
      armed |-> 0,
      fired |-> 0,
      signal |-> [src |-> {}, reason |-> NotAborted],
      calls |-> [c0 \in Callees |-> 0],
      hist |-> NoHistory ]

\* let attempt = 0 is declared inside the async function: the call that
\* resumes finds the counter of its own frame.
ResumedAttemptMutShared(f) == attempt

ResumedAttempt(f) == f.attempt

\* The running call is suspended at its await and the other call resumes.
Switch ==
    /\ other # NotCalled
    /\ other' = Frame(3 - other.id)
    /\ attempt' = ResumedAttempt(other)
    /\ UNCHANGED << pure, baseAbort >>
    /\ cfg' = other.cfg
    /\ pc' = other.pc
    /\ opts' = other.opts
    /\ currentOptions' = other.currentOptions
    /\ heap' = [other.heap EXCEPT !.defaultOpts = heap.defaultOpts,
                                  !.schema = heap.schema]
    /\ request' = other.request
    /\ response' = other.response
    /\ error' = other.error
    /\ data' = other.data
    /\ caught' = other.caught
    /\ thrown' = other.thrown
    /\ settled' = other.settled
    /\ result' = other.result
    /\ abort' = other.abort
    /\ armed' = other.armed
    /\ fired' = other.fired
    /\ signal' = other.signal
    /\ calls' = other.calls
    /\ hist' = other.hist

\* Two calls of one client: no schema and no payload, the client's retry
\* budget of one retry, which a call may lower to none, and a per-call
\* timeout or none.
ConcurrentInputs ==
    [ globalSchema : {Undefined}, callSchema : {Undefined},
      method : {Absent}, baseMethod : {Absent},
      body : {Undefined}, query : {Undefined}, params : {Undefined},
      requestValid : {TRUE}, hooksG : {TRUE}, hooksL : {FALSE},
      baseRetry : {[attempts |-> [kind |-> "const", n |-> 1],
                    delay |-> Absent, when |-> Absent]},
      callRetry : [attempts : {Absent, [kind |-> "const", n |-> 0]},
                   delay : {Absent}, when : {Absent}],
      custom : {FALSE}, signal : {FALSE}, baseSignal : {FALSE},
      timeout : BOOLEAN,
      anySupported : {TRUE}, throws : {"Error"} ]

InitConcurrent ==
    \E c1, c2 \in ConcurrentInputs :
         /\ Base(c1) = Base(c2)
         /\ cfg = StartFrame(1, c1).cfg
         /\ pc = StartFrame(1, c1).pc
         /\ opts = StartFrame(1, c1).opts
         /\ currentOptions = StartFrame(1, c1).currentOptions
         /\ heap = StartFrame(1, c1).heap
         /\ attempt = StartFrame(1, c1).attempt
         /\ request = StartFrame(1, c1).request
         /\ response = StartFrame(1, c1).response
         /\ error = StartFrame(1, c1).error
         /\ data = StartFrame(1, c1).data
         /\ caught = StartFrame(1, c1).caught
         /\ thrown = StartFrame(1, c1).thrown
         /\ settled = StartFrame(1, c1).settled
         /\ result = StartFrame(1, c1).result
         /\ abort = StartFrame(1, c1).abort
         /\ baseAbort = NotAborted
         /\ armed = StartFrame(1, c1).armed
         /\ fired = StartFrame(1, c1).fired
         /\ signal = StartFrame(1, c1).signal
         /\ calls = StartFrame(1, c1).calls
         /\ hist = StartFrame(1, c1).hist
         /\ other = StartFrame(2, c2)
         /\ pure = NotCalled

NextConcurrent ==
    \/ ValidateBody \/ ValidateQuery \/ ValidateParams
    \/ Enhance \/ NewRequest \/ OnRequestG \/ OnRequestL \/ Fetch \/ FetchSettle
    \/ RetryWhen \/ RetryAttempts \/ RetryDelay \/ Sleep \/ OnRetryG \/ OnRetryL
    \/ Post \/ Reject \/ ParseRejected \/ OnResponseG \/ OnResponseL
    \/ ParseResponse \/ ValidateResponse \/ OnSuccessG \/ OnSuccessL
    \/ OnErrorG \/ OnErrorL \/ Return \/ Catch
    \/ TimerFire
    \/ Switch

SpecConcurrent == InitConcurrent /\ [][NextConcurrent]_vars

(***************************************************************************)
(* One call whose awaits all settle.                                       *)
(***************************************************************************)
\* Calls with every form of the retry policy, and calls with a signal of
\* their own, a timeout and a signal in the client's options.
TerminationInputs ==
    [ globalSchema : {Undefined}, callSchema : {ResponseSchema},
      method : {Absent}, baseMethod : {Absent},
      body : {Undefined}, query : {Undefined}, params : {Undefined},
      requestValid : {TRUE},
      hooksG : {TRUE}, hooksL : {FALSE},
      baseRetry : [attempts : AttemptsOptions, delay : {DelayFn},
                   when : {Absent, CustomWhen}],
      callRetry : {NoRetry},
      custom : {FALSE}, signal : {FALSE}, baseSignal : {FALSE},
      timeout : {FALSE},
      anySupported : {TRUE}, throws : {"Error"} ]
    \cup
    [ globalSchema : {Undefined}, callSchema : {Undefined},
      method : {Absent}, baseMethod : {Absent},
      body : {Undefined}, query : {Undefined}, params : {Undefined},
      requestValid : {TRUE},
      hooksG : {FALSE}, hooksL : {FALSE},
      baseRetry : {[attempts |-> [kind |-> "const", n |-> 1],
                    delay |-> Absent, when |-> CustomWhen]},
      callRetry : {NoRetry},
      custom : {FALSE}, signal : {TRUE}, baseSignal : {TRUE},
      timeout : {TRUE},
      anySupported : {TRUE}, throws : {"Error"} ]

InitTerminates ==
    /\ cfg \in TerminationInputs
    /\ pc = StartFrame(1, cfg).pc
    /\ opts = StartFrame(1, cfg).opts
    /\ currentOptions = StartFrame(1, cfg).currentOptions
    /\ heap = StartFrame(1, cfg).heap
    /\ attempt = StartFrame(1, cfg).attempt
    /\ request = StartFrame(1, cfg).request
    /\ response = StartFrame(1, cfg).response
    /\ error = StartFrame(1, cfg).error
    /\ data = StartFrame(1, cfg).data
    /\ caught = StartFrame(1, cfg).caught
    /\ thrown = StartFrame(1, cfg).thrown
    /\ settled = StartFrame(1, cfg).settled
    /\ result = StartFrame(1, cfg).result
    /\ abort = StartFrame(1, cfg).abort
    /\ baseAbort = NotAborted
    /\ armed = StartFrame(1, cfg).armed
    /\ fired = StartFrame(1, cfg).fired
    /\ signal = StartFrame(1, cfg).signal
    /\ calls = StartFrame(1, cfg).calls
    /\ hist = StartFrame(1, cfg).hist
    /\ other = NotCalled
    /\ pure = NotCalled

\* A step of the call itself: the function it awaits has settled (a schema
\* validation, a hook, the transport call, a function of the retry policy,
\* the retry delay, reject, parseRejected, parseResponse) and the call runs
\* on to its next await.
Settles ==
    \/ ValidateBody \/ ValidateQuery \/ ValidateParams
    \/ Enhance \/ NewRequest \/ OnRequestG \/ OnRequestL \/ Fetch \/ FetchSettle
    \/ RetryWhen \/ RetryAttempts \/ RetryDelay \/ Sleep \/ OnRetryG \/ OnRetryL
    \/ Post \/ Reject \/ ParseRejected \/ OnResponseG \/ OnResponseL
    \/ ParseResponse \/ ValidateResponse \/ OnSuccessG \/ OnSuccessL
    \/ OnErrorG \/ OnErrorL \/ Return \/ Catch

\* The signals and the timers act when they will.
NextTerminates == Settles \/ Abort \/ AbortBase \/ TimerFire

\* Everything the call awaits settles eventually.
SpecTerminates ==
    InitTerminates /\ [][NextTerminates]_vars /\ WF_vars(Settles)

(***************************************************************************)
(* The utility functions, each applied on its own to bounded arguments.    *)
(***************************************************************************)
\* The variables of a call; no call runs while a utility is applied alone.
callVars ==
    << cfg, pc, opts, currentOptions, heap, attempt, request, response, error,
       data, caught, thrown, settled, result, abort, baseAbort, armed,
       fired, signal, calls, hist, other >>

IdleInputs ==
    [ globalSchema |-> Undefined, callSchema |-> Undefined,
      method |-> Absent, baseMethod |-> Absent,
      body |-> Undefined, query |-> Undefined, params |-> Undefined,
      requestValid |-> TRUE, hooksG |-> FALSE, hooksL |-> FALSE,
      baseRetry |-> NoRetry, callRetry |-> NoRetry,
      custom |-> FALSE, signal |-> FALSE, baseSignal |-> FALSE,
      timeout |-> FALSE, anySupported |-> TRUE, throws |-> "Error" ]

Idle ==
    /\ cfg = StartFrame(1, IdleInputs).cfg
    /\ pc = StartFrame(1, IdleInputs).pc
    /\ opts = StartFrame(1, IdleInputs).opts
    /\ currentOptions = StartFrame(1, IdleInputs).currentOptions
    /\ heap = StartFrame(1, IdleInputs).heap
    /\ attempt = StartFrame(1, IdleInputs).attempt
    /\ request = StartFrame(1, IdleInputs).request
    /\ response = StartFrame(1, IdleInputs).response
    /\ error = StartFrame(1, IdleInputs).error
    /\ data = StartFrame(1, IdleInputs).data
    /\ caught = StartFrame(1, IdleInputs).caught
    /\ thrown = StartFrame(1, IdleInputs).thrown
    /\ settled = StartFrame(1, IdleInputs).settled
    /\ result = StartFrame(1, IdleInputs).result
    /\ abort = StartFrame(1, IdleInputs).abort
    /\ baseAbort = NotAborted
    /\ armed = StartFrame(1, IdleInputs).armed
    /\ fired = StartFrame(1, IdleInputs).fired
    /\ signal = StartFrame(1, IdleInputs).signal
    /\ calls = StartFrame(1, IdleInputs).calls
    /\ hist = StartFrame(1, IdleInputs).hist
    /\ other = NotCalled

(***************************************************************************)
(* utils.ts, mergeHeaders.                                                 *)
(***************************************************************************)
MaxLayers == 3

\* Header names as callers write them, and String.prototype.toLowerCase on
\* them (new Headers lower-cases every name).
HeaderNames == {"Accept", "accept", "x-id"}
ToLowerCase(name) ==
    CASE name = "Accept" -> "accept"
      [] name = "Content-Type" -> "content-type"
      [] OTHER -> name

\* Header values; 'null' and 'undefined' are also what new Headers makes of
\* the members null and undefined of a HeadersObject.
HeaderValues == {"1", "2", "null", "undefined"}

\* A HeadersInit or HeadersObject: its name/value pairs in order.
HeadersInit(pairs) == [t |-> "HeadersInit", pairs |-> pairs]

HeaderInits ==
    {Undefined, HeadersInit(<<>>)}
      \cup {HeadersInit(<< <<n, v>> >>) : n \in HeaderNames, v \in HeaderValues}
      \cup { HeadersInit(<< <<"Accept", "1">>, <<"accept", "2">> >>),
             HeadersInit(<< <<"accept", "null">>, <<"Accept", "1">> >>),
             HeadersInit(<< <<"x-id", "1">>, <<"accept", "undefined">> >>) }

EmptyObject == [k \in {} |-> ""]

\* Headers.prototype.append: a name already there gets the values combined.
HeadersAppend(h, name, value) ==
    LET k == ToLowerCase(name) IN
    IF k \in DOMAIN h THEN [h EXCEPT ![k] = @ \o ", " \o value]
    ELSE h @@ (k :> value)

RECURSIVE HeadersFill(_, _)
HeadersFill(h, pairs) ==
    IF pairs = <<>> THEN h
    ELSE HeadersFill(HeadersAppend(h, Head(pairs)[1], Head(pairs)[2]),
                     Tail(pairs))

\* new Headers(init)
NewHeaders(init) ==
    IF init = Undefined THEN EmptyObject
    ELSE HeadersFill(EmptyObject, init.pairs)

\* new Headers(init).forEach((value, key) =>
\*    value === 'null' || value === 'undefined' ? delete res[key]
\*                                              : (res[key] = value))
mergeLayerMutKeepDeleted(res, h) ==
    [k \in DOMAIN res \cup {j \in DOMAIN h : h[j] \notin {"null", "undefined"}} |->
        IF k \in DOMAIN h /\ h[k] \notin {"null", "undefined"}
        THEN h[k] ELSE res[k]]

mergeLayer(res, h) ==
    LET set == {k \in DOMAIN h : ~(h[k] = "null" \/ h[k] = "undefined")}
        deleted == DOMAIN h \ set
    IN  [k \in (DOMAIN res \ deleted) \cup set |->
            IF k \in set THEN h[k] ELSE res[k]]

RECURSIVE mergeHeadersFrom(_, _)
mergeHeadersFrom(res, headerInits) ==
    IF headerInits = <<>> THEN res
    ELSE mergeHeadersFrom(mergeLayer(res, NewHeaders(Head(headerInits))),
                          Tail(headerInits))

mergeHeaders(headerInits) == mergeHeadersFrom(EmptyObject, headerInits)

RECURSIVE SeqsUpTo(_, _)
SeqsUpTo(S, n) ==
    IF n = 0 THEN {<<>>}
    ELSE LET shorter == SeqsUpTo(S, n - 1) IN
         shorter \cup {Append(q, x) : q \in shorter, x \in S}

InitMergeHeaders ==
    /\ Idle
    /\ pure \in [fn : {"mergeHeaders"}, args : SeqsUpTo(HeaderInits, MaxLayers),
                 out : {NotCalled}]

ApplyMergeHeaders ==
    /\ pure.fn = "mergeHeaders" /\ pure.out = NotCalled
    /\ pure' = [pure EXCEPT !.out = [res |-> mergeHeaders(pure.args)]]
    /\ UNCHANGED callVars

NextMergeHeaders == ApplyMergeHeaders

SpecMergeHeaders == InitMergeHeaders /\ [][NextMergeHeaders]_vars

(***************************************************************************)
(* enhance: the body and the headers of the options.                       *)
(***************************************************************************)
\* The bodies a call is made with: none, null, a plain object, an array, an
\* object with a toJSON method, a FormData, a string, a Blob.
RequestBodies ==
    { Undefined, Null, Obj("body"), [t |-> "array"], [t |-> "toJSON"],
      [t |-> "FormData"], Str("text"), [t |-> "Blob"] }

\* The first layer of options.headers: the automatic content-type.
autoContentTypeMutFormData(originalBody) ==
    IF optionsBody(originalBody) = Undefined \/ optionsBody(originalBody) = Null
    THEN HeadersInit(<<>>)
    ELSE HeadersInit(<< <<"content-type", "application/json">> >>)

autoContentType(originalBody) ==
    IF \/ optionsBody(originalBody) = Undefined
       \/ optionsBody(originalBody) = Null
       \/ originalBody.t = "FormData"
    THEN HeadersInit(<<>>)
    ELSE IF isSerializable(originalBody)
            /\ optionsBody(originalBody).t = "string"
         THEN HeadersInit(<< <<"content-type", "application/json">> >>)
         ELSE HeadersInit(<<>>)

\* options.headers = mergeHeaders([auto, defaultOpts.headers,
\*                                 fetcherOpts?.headers])
optionsHeaders(originalBody, baseHeaders, callHeaders) ==
    mergeHeaders(<< autoContentType(originalBody), baseHeaders, callHeaders >>)

\* The headers option of the client and of a call.
OptionHeaders ==
    { Undefined,
      HeadersInit(<< <<"x-id", "1">> >>),
      HeadersInit(<< <<"Content-Type", "text/plain">> >>),
      HeadersInit(<< <<"content-type", "text/html">>, <<"x-id", "2">> >>),
      HeadersInit(<< <<"content-type", "undefined">> >>) }

InitContentType ==
    /\ Idle
    /\ pure \in [fn : {"optionsHeaders"},
                 args : [body : RequestBodies, base : OptionHeaders,
                         call : OptionHeaders],
                 out : {NotCalled}]

ApplyContentType ==
    /\ pure.fn = "optionsHeaders" /\ pure.out = NotCalled
    /\ pure' = [pure EXCEPT !.out =
                  [body |-> optionsBody(pure.args.body),
                   headers |-> optionsHeaders(pure.args.body, pure.args.base,
                                              pure.args.call)]]
    /\ UNCHANGED callVars

NextContentType == ApplyContentType

SpecContentType == InitContentType /\ [][NextContentType]_vars

(***************************************************************************)
(* utils.ts, resolveUrl, with fallbackOptions.serializeParams.             *)
(*                                                                         *)
(* A string of a URL is the sequence of its pieces: each of the characters *)
(* / ? & = # : + is a piece, and each run of other characters is a piece.  *)
(***************************************************************************)
Text(pieces) == [t |-> "string", p |-> pieces]

\* A params object: its own entries <<key, value>> in insertion order.
Params(entries) == [t |-> "params", entries |-> entries]

EntriesOf(params) == IF params = Undefined THEN <<>> ELSE params.entries

KeysOf(params) == {EntriesOf(params)[i][1] : i \in 1..Len(EntriesOf(params))}

ValueOf(params, key) ==
    LET es == EntriesOf(params)
        i == CHOOSE j \in 1..Len(es) : es[j][1] = key
    IN  es[i][2]

\* value === undefined || value === null
isNil(value) == value = Undefined \/ value = Null

\* String(value) for a string or a number, as URLSearchParams.toString
\* writes it: a space becomes +.
EncodeValue(value) ==
    CASE value.t = "number" -> << ToString(value.n) >>
      [] value = Str("a b") -> << "a", "+", "b" >>
      [] value = Str("") -> << >>
      [] OTHER -> << value.s >>

\* append(key, value) of serializeParams
appendParam(pairs, key, value) ==
    IF isNil(value) THEN pairs ELSE Append(pairs, << key, EncodeValue(value) >>)

RECURSIVE appendItems(_, _, _)
appendItems(pairs, key, items) ==
    IF items = <<>> THEN pairs
    ELSE appendItems(appendParam(pairs, key, Head(items)), key, Tail(items))

RECURSIVE searchParamsOf(_, _)
searchParamsOf(pairs, entries) ==
    IF entries = <<>> THEN pairs
    ELSE LET key == Head(entries)[1]
             value == Head(entries)[2]
         IN  searchParamsOf(
                 IF value.t = "array" THEN appendItems(pairs, key, value.items)
                 ELSE appendParam(pairs, key, value),
                 Tail(entries))

\* URLSearchParams.prototype.toString
RECURSIVE searchParamsToString(_)
searchParamsToString(pairs) ==
    IF pairs = <<>> THEN <<>>
    ELSE << Head(pairs)[1], "=" >> \o Head(pairs)[2]
           \o (IF Tail(pairs) = <<>> THEN <<>>
               ELSE << "&" >> \o searchParamsToString(Tail(pairs)))

\* fallbackOptions.serializeParams
serializeParams(params) ==
    searchParamsToString(searchParamsOf(<<>>, EntriesOf(params)))

\* The pieces of str after its first ?, up to a #.
SearchOf(str) ==
    IF \A i \in 1..Len(str) : str[i] # "?" THEN <<>>
    ELSE LET q == CHOOSE i \in 1..Len(str) :
                     str[i] = "?" /\ \A j \in 1..(i - 1) : str[j] # "?"
             stops == {i \in (q + 1)..Len(str) : str[i] = "#"} \cup {Len(str) + 1}
             end == CHOOSE i \in stops : \A j \in stops : i <= j
         IN  SubSeq(str, q + 1, end - 1)

\* The name/value pairs of a query string.
ParseSearch(search) ==
    LET starts == {i \in 1..Len(search) :
                     search[i] # "&" /\ (i = 1 \/ search[i - 1] = "&")}
        EndOf(i) ==
            LET stops == {j \in i..Len(search) : search[j] = "&"}
                           \cup {Len(search) + 1}
            IN  (CHOOSE j \in stops : \A k \in stops : j <= k) - 1
    IN  { [key |-> search[i], value |-> SubSeq(search, i + 2, EndOf(i))] :
            i \in starts }

\* new URL(inputStr, 'http://a').searchParams.keys()
searchParamsKeys(inputStr) == {pr.key : pr \in ParseSearch(SearchOf(inputStr))}

\* omit(obj, keys)
omit(obj, keys) ==
    LET Kept(e) == e[1] \notin keys IN
    Params(SelectSeq(EntriesOf(obj), Kept))

\* { ...a, ...b }
objectSpreadMutDropBase(a, b) ==
    IF b = Undefined THEN Params(EntriesOf(a)) ELSE Params(EntriesOf(b))

objectSpread(a, b) ==
    LET ea == EntriesOf(a)
        eb == EntriesOf(b)
        Fresh(e) == e[1] \notin KeysOf(a)
    IN  Params([i \in 1..Len(ea) |->
                   IF ea[i][1] \in KeysOf(b)
                   THEN << ea[i][1], ValueOf(b, ea[i][1]) >> ELSE ea[i]]
               \o SelectSeq(eb, Fresh))

IsPrefix(pre, str) ==
    Len(pre) <= Len(str) /\ SubSeq(str, 1, Len(pre)) = pre

\* /^https?:\/\//.test(inputStr)
testAbsolute(inputStr) ==
    \/ IsPrefix(<< "http", ":", "/", "/" >>, inputStr)
    \/ IsPrefix(<< "https", ":", "/", "/" >>, inputStr)

\* str.replace(/\/$/, '')
replaceTrailingSlash(str) ==
    IF str # <<>> /\ str[Len(str)] = "/" THEN SubSeq(str, 1, Len(str) - 1)
    ELSE str

\* str.replace(/^\//, ''), str.replace(/^\?/, '')
replaceLeading(str, c) ==
    IF str # <<>> /\ Head(str) = c THEN Tail(str) ELSE str

\* str.includes(c)
includes(str, c) == \E i \in 1..Len(str) : str[i] = c

\* The URL before the query is appended.
joinUrlMutKeepSlashes(base, inputStr) ==
    IF testAbsolute(inputStr) THEN inputStr
    ELSE IF base = <<>> \/ inputStr = <<>> THEN base \o inputStr
    ELSE base \o << "/" >> \o inputStr

joinUrl(base, inputStr) ==
    IF testAbsolute(inputStr) THEN inputStr
    ELSE IF base = <<>> \/ inputStr = <<>> THEN base \o inputStr
    ELSE replaceTrailingSlash(base) \o << "/" >> \o replaceLeading(inputStr, "/")

\* resolveUrl(base = '', input, defaultOptsParams, fetcherOptsParams,
\*            serializeParams)
resolveUrl(base, input, defaultOptsParams, fetcherOptsParams) ==
    LET b == IF base = Undefined THEN <<>> ELSE base.p
        inputStr == input.p
        qs == serializeParams(
                  objectSpread(omit(defaultOptsParams, searchParamsKeys(inputStr)),
                               fetcherOptsParams))
        url == joinUrl(b, inputStr)
    IN  Text(IF qs # <<>>
             THEN url \o (IF includes(url, "?") THEN << "&" >> ELSE << "?" >>)
                      \o replaceLeading(qs, "?")
             ELSE url)

UrlBases ==
    { Undefined, Text(<<>>),
      Text(<< "http", ":", "/", "/", "h" >>),
      Text(<< "http", ":", "/", "/", "h", "/" >>),
      Text(<< "http", ":", "/", "/", "h", "/", "/" >>),
      Text(<< "/", "api" >>) }

UrlInputs ==
    { Text(<<>>), Text(<< "users" >>), Text(<< "/", "users" >>),
      Text(<< "/", "/", "users" >>),
      Text(<< "users", "?", "x", "=", "1" >>),
      Text(<< "/", "users", "?", "keep", "=", "z" >>),
      Text(<< "https", ":", "/", "/", "o", "/", "users" >>),
      Text(<< "http", ":", "/", "/", "o", "?", "x", "=", "1" >>),
      Text(<< "ftp", ":", "/", "/", "o" >>) }

DefaultParams ==
    { Undefined,
      Params(<< <<"keep", Str("v")>>, <<"remove", Str("x")>> >>),
      Params(<< <<"keep", Str("a b")>> >>),
      Params(<< <<"ids", [t |-> "array", items |-> << Num(1), Null, Num(2) >>]>>,
                <<"remove", Num(0)>> >>) }

CallParams ==
    { Undefined, Params(<<>>),
      Params(<< <<"remove", Undefined>> >>),
      Params(<< <<"remove", Str("y")>>, <<"extra", Num(7)>> >>),
      Params(<< <<"keep", Null>>, <<"ids", Str("")>> >>) }

InitResolveUrl ==
    /\ Idle
    /\ pure \in [fn : {"resolveUrl"},
                 args : [base : UrlBases, input : UrlInputs,
                         defaultOptsParams : DefaultParams,
                         fetcherOptsParams : CallParams],
                 out : {NotCalled}]

ApplyResolveUrl ==
    /\ pure.fn = "resolveUrl" /\ pure.out = NotCalled
    /\ pure' = [pure EXCEPT !.out =
                  resolveUrl(pure.args.base, pure.args.input,
                             pure.args.defaultOptsParams,
                             pure.args.fetcherOptsParams)]
    /\ UNCHANGED callVars

NextResolveUrl == ApplyResolveUrl

SpecResolveUrl == InitResolveUrl /\ [][NextResolveUrl]_vars

(***************************************************************************)
(* utils.ts, replacePathParams.                                            *)
(***************************************************************************)
\* The most entries a params object of the inputs has.
MaxPathParams == 2

\* String(value) for a string or a number, as pieces.
StringOf(value) ==
    IF value.t = "number" THEN << ToString(value.n) >> ELSE value.p

\* str.replace(new RegExp(`:${key}\\b`, 'g'), text): every : followed by the
\* whole word key; the text put in is not scanned again by this replace.
RECURSIVE replaceToken(_, _, _)
replaceToken(str, key, text) ==
    IF str = <<>> THEN <<>>
    ELSE IF Len(str) >= 2 /\ str[1] = ":" /\ str[2] = key
         THEN text \o replaceToken(SubSeq(str, 3, Len(str)), key, text)
         ELSE << Head(str) >> \o replaceToken(Tail(str), key, text)

\* for (const [key, value] of Object.entries(params)) {
\*   if (value === undefined || value === null) continue
\*   newPath = newPath.replace(..., String(value)) }
RECURSIVE replaceEntries(_, _)
replaceEntries(newPath, entries) ==
    IF entries = <<>> THEN newPath
    ELSE LET key == Head(entries)[1]
             value == Head(entries)[2]
         IN  replaceEntries(
                 IF value = Undefined \/ value = Null THEN newPath
                 ELSE replaceToken(newPath, key, StringOf(value)),
                 Tail(entries))

\* replacePathParams(path, params)
replacePathParams(path, params) ==
    IF ~isPlainObject([t |-> IF params.t = "params" THEN "object" ELSE params.t])
    THEN path
    ELSE Text(replaceEntries(path.p, params.entries))

PathInputs ==
    { Text(<< "/", "users" >>),
      Text(<< "/", "users", "/", ":", "id" >>),
      Text(<< "/", ":", "a", "/", ":", "b" >>),
      Text(<< "/", ":", "a", "/", ":", "a" >>),
      Text(<< "/", ":", "idx", "/", ":", "id" >>),
      Text(<< ":", "b", "-", ":", "a" >>) }

PathParamKeys == {"a", "b", "id"}

PathParamValues ==
    { Text(<< "x" >>), Text(<< ":", "b" >>), Num(7), Null, Undefined }

\* The params objects with up to n entries, each key at most once.
RECURSIVE PathParamEntries(_)
PathParamEntries(n) ==
    IF n = 0 THEN {<<>>}
    ELSE LET shorter == PathParamEntries(n - 1) IN
         shorter \cup
           { Append(es, << k, v >>) :
               es \in {e \in shorter : Len(e) = n - 1},
               k \in PathParamKeys, v \in PathParamValues }

PathParams ==
    {Undefined} \cup
      { Params(es) : es \in { e \in PathParamEntries(MaxPathParams) :
             \A i, j \in 1..Len(e) : i # j => e[i][1] # e[j][1] } }

InitReplacePathParams ==
    /\ Idle
    /\ pure \in [fn : {"replacePathParams"},
                 args : [path : PathInputs, params : PathParams],
                 out : {NotCalled}]

ApplyReplacePathParams ==
    /\ pure.fn = "replacePathParams" /\ pure.out = NotCalled
    /\ pure' = [pure EXCEPT !.out =
                  replacePathParams(pure.args.path, pure.args.params)]
    /\ UNCHANGED callVars

NextReplacePathParams == ApplyReplacePathParams

SpecReplacePathParams == InitReplacePathParams /\ [][NextReplacePathParams]_vars

(***************************************************************************)
(* utils.ts, validate, applied to what a schema's ~standard.validate gives. *)
(***************************************************************************)
\* The issues member of a failure result: an array of issues.
IssueLists == { <<>>, <<"a">>, <<"a", "b">>, <<"b", "a">> }

\* What schema['~standard'].validate(data) gives, at once or through a
\* promise: a success result (no issues member) with the input or a
\* transformed value, or a failure result with its issues and, for some
\* schemas, a partial output.
StandardResults(input) ==
    { [issues |-> Undefined, value |-> v] : v \in {input, Obj("transformed")} }
      \cup
    { [issues |-> [t |-> "array", items |-> is], value |-> v] :
        is \in IssueLists, v \in {Undefined, Obj("partial")} }

\* const result = await schema['~standard'].validate(data); if (result.issues)
awaitedResult(raw) ==
    [ hasIssues |-> Truthy(raw.issues),
      issues |-> IF raw.issues = Undefined THEN <<>> ELSE raw.issues.items,
      value |-> raw.value ]

ValidateInputs == { Obj("in"), Str("raw"), Num(0), Null }

InitValidate ==
    /\ Idle
    /\ \E input \in ValidateInputs :
         pure \in [fn : {"validate"},
                   args : [data : {input}, result : StandardResults(input),
                           async : BOOLEAN],
                   out : {NotCalled}]

ApplyValidate ==
    /\ pure.fn = "validate" /\ pure.out = NotCalled
    /\ pure' = [pure EXCEPT !.out =
                  validate(awaitedResult(pure.args.result), pure.args.data)]
    /\ UNCHANGED callVars

NextValidate == ApplyValidate

SpecValidate == InitValidate /\ [][NextValidate]_vars

(***************************************************************************)
(* result.ts, matchResfetch, applied to the results ok and err build.      *)
(***************************************************************************)
\* How many times one result is matched.
MaxMatches == 2

\* The value the pure handler h returns for the argument arg.
HandlerValue(h, arg) == [t |-> "handled", by |-> h, arg |-> arg]

\* matchResfetch(result, handlers): the handlers it invokes, in order, and
\* the value it returns.
matchResfetchMutNoValidation(res) ==
    IF res.ok
    THEN [invoked |-> << <<"ok", res.data>> >>,
          returned |-> HandlerValue("ok", res.data)]
    ELSE [invoked |-> << <<"responseError", res.error>> >>,
          returned |-> HandlerValue("responseError", res.error)]

matchResfetch(res) ==
    IF res.ok
    THEN [invoked |-> << <<"ok", res.data>> >>,
          returned |-> HandlerValue("ok", res.data)]
    ELSE IF isValidationError(res.error)
         THEN [invoked |-> << <<"validationError", res.error>> >>,
               returned |-> HandlerValue("validationError", res.error)]
         ELSE [invoked |-> << <<"responseError", res.error>> >>,
               returned |-> HandlerValue("responseError", res.error)]

\* The results a call resolves to.
MatchResults ==
    { ok(d) : d \in {Undefined, Null, Str(""), Str("7"), Num(0), Obj("data")} }
      \cup
    { err(ValidationError(is, d)) :
        is \in IssueLists, d \in {Undefined, Obj("in"), Str("raw")} }
      \cup
    { err(ResponseError([message |-> m, response |-> r, request |-> Undefined,
                         data |-> d, originalError |-> e])) :
        m \in {Undefined, Str("failed")},
        r \in {Undefined, ResponseOf(500, "", 0)},
        d \in {Undefined, Null},
        e \in {Undefined, ErrorOf("network"), Str("raw")} }

InitMatch ==
    /\ Idle
    /\ pure \in [fn : {"matchResfetch"}, args : [result : MatchResults],
                 invoked : {<<>>}, returned : {<<>>}]

ApplyMatch ==
    /\ pure.fn = "matchResfetch" /\ Len(pure.returned) < MaxMatches
    /\ pure' = [pure EXCEPT
                  !.invoked = @ \o matchResfetch(pure.args.result).invoked,
                  !.returned = Append(@, matchResfetch(pure.args.result).returned)]
    /\ UNCHANGED callVars

NextMatch == ApplyMatch

SpecMatch == InitMatch /\ [][NextMatch]_vars

(***************************************************************************)
(* Properties.                                                             *)
(***************************************************************************)
Done == pc = "done"
Failed == Done /\ settled = "resolved" /\ ~result.ok

\* retry.attempts is the constant n (explicitly, or by the fallback).
ConstantAttempts(n) == retry(cfg).attempts = [kind |-> "const", n |-> n]

\* retry.when is the fallback's.
WhenDefault == retry(cfg).when.kind = "default"

\* The callees whose throw ends the call whatever the retry policy says.
TerminalSources ==
    { "Request", "onRetry", "onResponse", "onSuccess", "onError", "when",
      "attempts", "delay", "reject", "parseRejected", "parseResponse" }

\* The call never rejects: the returned promise resolves, to a result.
NeverRejects ==
    /\ settled # "rejected"
    /\ Done => (settled = "resolved" /\ result.ok \in BOOLEAN)

\* The last attempt of the call ended with its onRequest hook or the
\* transport throwing.
LastAttemptThrew ==
    /\ hist.last \in {"throw", "none"}
    /\ calls["onRequestG"] + calls["onRequestL"] + calls["fetch"] > 0

\* C1 as stated: a call never throws or rejects: the returned promise always
\* resolves, and whatever was thrown by request preparation, request
\* construction, a hook, the transport (in the last attempt), a retry-policy
\* function, reject, parseRejected, parseResponse or response validation,
\* it resolves to a result with ok = false.
C1_NeverThrows ==
    /\ NeverRejects
    /\ Done =>
         ((hist.vfail # "none" \/ hist.threw \cap TerminalSources # {}
             \/ LastAttemptThrew) => ~result.ok)

\* C2 as stated: exactly one of result.data and result.error is defined,
\* and result.ok is true exactly when data is the one defined, for every
\* parseResponse return value.
C2_ExactlyOneDefined ==
    Done =>
      /\ (result.data # Undefined) # (result.error # Undefined)
      /\ result.ok <=> (result.data # Undefined)

\* C2 amended: result.ok is true exactly when result.error is undefined; a
\* failure has error defined and data undefined; a success has error
\* undefined and as data the value parseResponse and response validation
\* produced, so never both are defined, and exactly one is defined unless
\* a custom parseResponse produced undefined.
C2_OkMatchesError ==
    Done =>
      /\ result.ok <=> (result.error = Undefined)
      /\ ~result.ok => (result.error # Undefined /\ result.data = Undefined)
      /\ result.ok => result.data = data
      /\ ~(result.data # Undefined /\ result.error # Undefined)
      /\ opts.parseResponse # "custom" =>
            (result.data # Undefined) # (result.error # Undefined)

C2_Witness ==
    /\ Done /\ result.ok
    /\ opts.parseResponse = "custom"
    /\ result.data = Undefined /\ result.error = Undefined

\* C3: with a constant retry.attempts = N, a transport whose first N calls
\* fail (retry.when true on each) and whose call N+1 succeeds, and nothing
\* else failing, the call returns ok = true after exactly N+1 transport calls
\* and N onRetry rounds.
C3_Scenario(n) ==
    /\ ConstantAttempts(n)
    /\ ~hist.declined
    /\ hist.threw \subseteq {"fetch"}
    /\ hist.vfail = "none"
    /\ opts.reject # "custom"
    /\ \/ hist.firstOk = 0 /\ calls["fetch"] <= n
       \/ hist.firstOk = n + 1

C3_RetryThenSucceed ==
    \A n \in 0..(MaxAttempts + 1) :
      (Done /\ C3_Scenario(n)) =>
        /\ result.ok
        /\ calls["fetch"] = n + 1
        /\ cfg.hooksG => calls["onRetryG"] = n
        /\ cfg.hooksL => calls["onRetryL"] = n

C3_Witness ==
    /\ Done /\ C3_Scenario(MaxAttempts)
    /\ result.ok /\ calls["fetch"] = MaxAttempts + 1
    /\ calls["onRetryG"] = MaxAttempts /\ calls["onRetryL"] = MaxAttempts
    /\ "fetch" \in hist.threw /\ error = Undefined

\* C4: with a constant retry.attempts = N the transport is called at most
\* N+1 times and each onRetry hook at most N times, whatever happens; with
\* no retry policy configured, at most once and never.
C4_AttemptBudget ==
    /\ \A n \in 0..(MaxAttempts + 1) :
         ConstantAttempts(n) =>
           /\ calls["fetch"] <= n + 1
           /\ calls["onRetryG"] <= n
           /\ calls["onRetryL"] <= n
           /\ calls["onRequestG"] <= n + 1
    /\ (cfg.baseRetry.attempts = Absent /\ cfg.callRetry.attempts = Absent) =>
         /\ calls["fetch"] <= 1
         /\ calls["onRetryG"] = 0
         /\ calls["onRetryL"] = 0

C4_Witness ==
    /\ Done /\ ConstantAttempts(1) /\ ~WhenDefault
    /\ calls["fetch"] = 2 /\ calls["onRetryL"] = 1
    /\ hist.last = "bad"

\* C5: the error of a failure result is a ValidationError or a
\* ResponseError: the thrown value itself when it is one of the two, and
\* otherwise a new ResponseError whose originalError is the thrown value and
\* whose message is the thrown value's message when it is an Error, else ''.
C5_ErrorMapping ==
    Failed =>
      /\ result.error.t \in {"ValidationError", "ResponseError"}
      /\ IF thrown.t \in {"ValidationError", "ResponseError"}
         THEN result.error = thrown
         ELSE /\ result.error.t = "ResponseError"
              /\ result.error.originalError = thrown
              /\ result.error.message =
                   IF InstanceOfError(thrown) THEN thrown.message ELSE ""
              /\ result.error.status = Undefined

C5_Witness ==
    /\ Failed
    /\ thrown = Obj("rejected")
    /\ result.error.originalError = Obj("rejected")
    /\ result.error.message = ""

\* C6 as stated: a ResponseError of a failure result has a status if and
\* only if a response was received from the transport in that call.
C6_StatusIffResponse ==
    (Failed /\ isResponseError(result.error)) =>
      ((result.error.status # Undefined) <=> (response # Undefined))

\* C6 amended: a ResponseError of a failure result has a status only if a
\* response was received in that call, and the status is then the status of
\* the last response received; it has a status exactly when it is the
\* error the default parseRejected built from that response.  A failure
\* that follows a received response for another reason has no status.
C6_StatusOnlyIfResponse ==
    (Failed /\ isResponseError(result.error)) =>
      /\ result.error.status # Undefined =>
           /\ response # Undefined
           /\ result.error.status = Num(response.status)
           /\ result.error.response = response
      /\ (result.error.status # Undefined) <=>
           /\ response # Undefined
           /\ opts.parseRejected = "default"
           /\ result.error = DefaultParseRejected(response, request)

C6_Witness ==
    /\ Failed /\ isResponseError(result.error)
    /\ response # Undefined
    /\ result.error.status = Num(500)
    /\ hist.last = "bad"

\* C7 as stated: with the default reject and parseRejected (and nothing but
\* the transport failing), a final non-ok response gives a ResponseError
\* with that status, and a final attempt that ended in a transport throw
\* gives a ResponseError with no status.
C7_StatusOfFinalAttempt ==
    ( /\ Done
      /\ opts.reject # "custom" /\ opts.parseRejected # "custom"
      /\ hist.threw \subseteq {"fetch", "onRequest"}
      /\ hist.vfail = "none" ) =>
      /\ hist.last = "bad" =>
           /\ Failed /\ isResponseError(result.error)
           /\ result.error.status = Num(response.status)
      /\ hist.last = "throw" =>
           /\ Failed /\ isResponseError(result.error)
           /\ result.error.status = Undefined

\* C8: when validation of the body, query or params fails the call returns
\* ok = false with that ValidationError; no transport call, no retry and no
\* request hook happens; the parts are validated in the order body, query,
\* params and the first failure ends the preparation.
PrepParts == {"body", "query", "params"}

C8_PrepValidationFailure ==
    hist.vfail \in PrepParts =>
      /\ calls["fetch"] = 0
      /\ calls["onRequestG"] = 0 /\ calls["onRequestL"] = 0
      /\ calls["onRetryG"] = 0 /\ calls["onRetryL"] = 0
      /\ attempt = 0 /\ request = Undefined
      /\ pc \in {"catch", "done"}
      /\ thrown = ValidationError(<< "invalid" >>, cfg[hist.vfail])
      /\ Done => (Failed /\ result.error = thrown)
      /\ hist.vfail = "body" =>
           (currentOptions.query = cfg.query /\ currentOptions.params = cfg.params)
      /\ hist.vfail = "query" => currentOptions.params = cfg.params

C8_Witness ==
    /\ Done /\ hist.vfail = "query"
    /\ currentOptions.body = Obj("transformed")
    /\ Failed /\ isValidationError(result.error)
    /\ result.error.data = Obj("query")
    /\ calls["fetch"] = 0

\* The call is leaving enhance through its post-loop catch, or has left it.
ErrorExit == pc \in {"onErrorG", "onErrorL", "catch", "done"}

\* C9 as stated: a response-schema validation failure is never retried (no
\* transport call and no onRetry follows it) and the call returns ok = false
\* with that ValidationError.
C9_ResponseValidationTerminal ==
    hist.vfail = "response" =>
      /\ ErrorExit
      /\ caught = ValidationError(<< "invalid" >>, data)
      /\ Done => (Failed /\ result.error = caught)

\* C9 amended: a response-schema validation failure is never retried (no
\* transport call and no onRetry follows it) and the call returns
\* ok = false: with that ValidationError, unless an onError hook throws, and
\* then with the value the hook threw when that is a ValidationError or a
\* ResponseError (the ValidationError itself when the hook throws the error
\* it was given), else with a ResponseError wrapping the value, undefined
\* included.
C9_ResponseValidationNotRetried ==
    hist.vfail = "response" =>
      /\ ErrorExit
      /\ caught = ValidationError(<< "invalid" >>, data)
      /\ Done =>
           /\ Failed
           /\ IF "onError" \in hist.threw
              THEN /\ thrown = OnErrorThrows(caught)
                   /\ cfg.throws = "rethrow" => result.error = caught
                   /\ cfg.throws = "ResponseError" =>
                        /\ result.error = HookError("onError")
                        /\ result.error.originalError = Undefined
                   /\ cfg.throws \in {"Error", "undefined"} =>
                        /\ isResponseError(result.error)
                        /\ result.error # thrown
                        /\ result.error.originalError = thrown
              ELSE result.error = caught

C9_Witness ==
    /\ Done /\ hist.vfail = "response"
    /\ ConstantAttempts(MaxAttempts) /\ attempt < MaxAttempts
    /\ ~WhenDefault
    /\ calls["fetch"] = 1 /\ calls["onRetryG"] = 0
    /\ Failed /\ isValidationError(result.error)

\* The error a result carries is e, or wraps e as its originalError.
Carries(res, e) ==
    \/ res.error = e
    \/ isResponseError(res.error) /\ res.error.originalError = e

\* C10 as stated: every call that returns ok = false has invoked each
\* configured onError hook exactly once, with the error the result carries.
C10_OnErrorOnEveryFailure ==
    Failed =>
      /\ cfg.hooksG => (calls["onErrorG"] = 1 /\ Carries(result, hist.errG))
      /\ cfg.hooksL => (calls["onErrorL"] = 1 /\ Carries(result, hist.errL))

\* C11: every call that returns ok = true has invoked each configured
\* onSuccess hook exactly once, the global one before the per-call one, with
\* the parsed and validated value that is result.data, and no onError hook;
\* no onSuccess hook is invoked when reject returned true, parseResponse
\* threw or response validation failed.
C11_OnSuccessOnEverySuccess ==
    /\ (Done /\ settled = "resolved" /\ result.ok) =>
         /\ cfg.hooksG => (calls["onSuccessG"] = 1 /\ hist.okG = result.data)
         /\ cfg.hooksL => (calls["onSuccessL"] = 1 /\ hist.okL = result.data)
         /\ calls["onErrorG"] = 0 /\ calls["onErrorL"] = 0
    /\ cfg.hooksG => calls["onSuccessL"] <= calls["onSuccessG"]
    /\ ( \/ opts.parseRejected # "unread"
         \/ "parseResponse" \in hist.threw
         \/ hist.vfail = "response" ) =>
         (calls["onSuccessG"] = 0 /\ calls["onSuccessL"] = 0)

C11_Witness ==
    /\ Done /\ settled = "resolved" /\ result.ok
    /\ cfg.hooksG /\ cfg.hooksL
    /\ schemaDef(cfg).response /\ result.data = Obj("transformed")
    /\ hist.okG = Obj("transformed") /\ hist.okL = Obj("transformed")
    /\ calls["onSuccessG"] = 1 /\ calls["onSuccessL"] = 1

\* C12 as stated: when the caller's signal fires while a retry delay is
\* pending, the delay is cancelled at once, no transport call and no onRetry
\* hook follows the abort, and the call returns ok = false with a
\* ResponseError that has no status; so with retry.attempts = MaxAttempts and
\* an abort in the delay after the first attempt fewer than MaxAttempts
\* attempts are made.
C12_AbortCancelsDelay ==
    hist.delayAbort # NotCalled =>
      /\ hist.delayCut = "abort"
      /\ calls["fetch"] = hist.delayAbort["fetch"]
      /\ calls["onRetryG"] = hist.delayAbort["onRetryG"]
      /\ calls["onRetryL"] = hist.delayAbort["onRetryL"]
      /\ (ConstantAttempts(MaxAttempts) /\ hist.delayAbort["fetch"] = 1) =>
           calls["fetch"] < MaxAttempts
      /\ Done =>
           /\ Failed /\ isResponseError(result.error)
           /\ result.error.status = Undefined

\* C13 as stated: a timeout that expires while a retry delay is pending does
\* not cancel the delay: no pending delay is ever cancelled by a timeout,
\* only by the caller's signal.
C13_TimeoutKeepsDelay ==
    hist.delayCut # "timeout"

\* C14 amended: on a runtime that has AbortSignal.any, every attempt has a
\* signal of its own, as C14 states; on a runtime without it, the signal of
\* every attempt is the caller's own signal (none when the caller gave
\* none), no timer is ever armed, the signal has fired exactly when the
\* caller's has, and a transport call is cancelled only by the caller.
C14_FreshSignalWhereAnySupported ==
    /\ (cfg.anySupported /\ request # Undefined) =>
         /\ signal.src = (IF cfg.signal THEN {0} ELSE {})
                            \cup (IF cfg.timeout THEN {armed} ELSE {})
         /\ cfg.timeout => armed = request.attempt + 1
         /\ (signal.reason # NotAborted) <=>
              \/ cfg.signal /\ abort # NotAborted
              \/ cfg.timeout /\ fired >= armed
    /\ (cfg.anySupported /\ hist.cancel # NotCalled) =>
         \/ hist.cancel.caller
         \/ cfg.timeout /\ hist.cancel.expired >= hist.cancel.attempt + 1
    /\ ~cfg.anySupported =>
         /\ armed = 0 /\ fired = 0
         /\ request # Undefined =>
              /\ signal.src = (IF cfg.signal THEN {0} ELSE {})
              /\ (signal.reason # NotAborted) <=>
                   (cfg.signal /\ abort # NotAborted)
         /\ hist.cancel # NotCalled => hist.cancel.caller

\* C14 as stated: every attempt has a signal of its own, made of the
\* caller's signal (when given) and of the timer armed at the start of that
\* attempt (when a timeout is configured); it has fired exactly when the
\* caller's signal has fired or that timer has expired; a transport call is
\* cancelled only when the caller's signal has fired or the timer of its own
\* attempt has expired.
C14_FreshSignalPerAttempt ==
    /\ request # Undefined =>
         /\ signal.src = (IF cfg.signal THEN {0} ELSE {})
                            \cup (IF cfg.timeout THEN {armed} ELSE {})
         /\ cfg.timeout => armed = request.attempt + 1
         /\ (signal.reason # NotAborted) <=>
              \/ cfg.signal /\ abort # NotAborted
              \/ cfg.timeout /\ fired >= armed
    /\ hist.cancel # NotCalled =>
         \/ hist.cancel.caller
         \/ cfg.timeout /\ hist.cancel.expired >= hist.cancel.attempt + 1

C14_Witness ==
    /\ pc = "inflight" /\ request.attempt = 1
    /\ cfg.anySupported
    /\ cfg.timeout /\ armed = 2 /\ fired = 1
    /\ signal.reason = NotAborted
    /\ hist.cancel # NotCalled /\ hist.cancel.attempt = 0

\* C15 as stated: with the default retry.when and a constant
\* retry.attempts >= 1, retry.when answers true after an attempt whose
\* transport call threw and after one that returned a non-ok response, and
\* false after one that returned an ok response.
C15_DefaultWhenRetriesFailures ==
    (WhenDefault /\ \E n \in 1..(MaxAttempts + 1) : ConstantAttempts(n)) =>
      /\ ~(hist.declined /\ hist.last \in {"throw", "bad"})
      /\ pc = "attempts" => hist.last # "ok"

\* The lifecycle points and the callees that are their hooks.
Lifecycle == {"onRequest", "onRetry", "onResponse", "onSuccess", "onError"}
GlobalOf(h) == h \o "G"
LocalOf(h) == h \o "L"

\* C17: at every lifecycle point the global hook is invoked before the
\* per-call hook, which is invoked only after the global one has returned;
\* when the global hook throws, the per-call hook of that point is not
\* invoked.
C17_GlobalHookFirst ==
    cfg.hooksG =>
      /\ \A h \in Lifecycle : calls[LocalOf(h)] <= calls[GlobalOf(h)]
      /\ hist.lSaw # NotCalled =>
           hist.lSaw.after = [hook |-> hist.lSaw.hook, threw |-> FALSE]
      /\ (hist.gLast # NotCalled /\ hist.gLast.threw) =>
           pc \notin {"onRequestL", "onRetryL", "onResponseL", "onSuccessL",
                      "onErrorL"}

C17_Witness ==
    /\ cfg.hooksG /\ cfg.hooksL /\ Done
    /\ hist.gLast = [hook |-> "onError", threw |-> TRUE]
    /\ calls["onErrorG"] = 1 /\ calls["onErrorL"] = 0
    /\ calls["onRetryL"] = 1 /\ calls["onRequestL"] = 2
    /\ hist.lSaw = [hook |-> "onRequest",
                    after |-> [hook |-> "onRequest", threw |-> FALSE]]

\* The call used sch as its whole schema: it validated no part sch has no
\* validator for; a call that passed request preparation validated exactly
\* the parts that sch validates and that the call supplied; a call that
\* succeeded validated the response when sch validates it; and a call that
\* gave no method sent the request with the method of sch.
UsesSchema(sch) ==
    /\ hist.validated \subseteq {p \in PrepParts \cup {"response"} : sch[p]}
    /\ (pc \notin {"validateBody", "validateQuery", "validateParams"}
          /\ hist.vfail \notin PrepParts) =>
         hist.validated \cap PrepParts =
           {p \in PrepParts : sch[p] /\ Truthy(cfg[p])}
    /\ (Done /\ result.ok /\ sch.response) => "response" \in hist.validated
    /\ (request # Undefined /\ cfg.method = Absent /\ sch.method # Undefined) =>
         request.method = sch.method.s

\* C18: when the URL has an entry in the global schema table, that entry is
\* the whole schema of the call (body, query, params and response
\* validators, method) and the per-call schema is ignored; the per-call
\* schema is used only when the URL has no entry.
C18_GlobalSchemaPrecedence ==
    /\ cfg.globalSchema # Undefined =>
         /\ UsesSchema(cfg.globalSchema)
         /\ request # Undefined => request.method # "PATCH"
    /\ (cfg.globalSchema = Undefined /\ cfg.callSchema # Undefined) =>
         UsesSchema(cfg.callSchema)
    /\ (cfg.globalSchema = Undefined /\ cfg.callSchema = Undefined) =>
         hist.validated = {}

C18_Witness ==
    /\ Done /\ result.ok
    /\ cfg.globalSchema # Undefined /\ cfg.globalSchema.body
    /\ cfg.globalSchema.method = Str("PUT")
    /\ cfg.callSchema # Undefined /\ cfg.callSchema.response
    /\ cfg.callSchema.method = Str("PATCH")
    /\ cfg.method = Absent
    /\ hist.validated = {"body", "params"}
    /\ currentOptions.body = Obj("transformed")
    /\ request.method = "PUT"

\* C19: the method of the request is the per-call method when the call gives
\* one, else the method of the effective schema entry, else the method of the
\* client's base options, else GET.
C19_MethodPrecedence ==
    request # Undefined =>
      request.method =
        IF cfg.method # Absent THEN cfg.method.s
        ELSE IF schemaDef(cfg).method # Undefined THEN schemaDef(cfg).method.s
        ELSE IF cfg.baseMethod # Absent THEN cfg.baseMethod.s
        ELSE "GET"

\* The value of retry field k in the last of the layers fallback, base,
\* per-call that supplies it.
LastSupplied(k) ==
    IF cfg.callRetry[k] # Absent THEN cfg.callRetry[k]
    ELSE IF cfg.baseRetry[k] # Absent THEN cfg.baseRetry[k]
    ELSE FallbackRetry[k]

\* C20: each of attempts, delay and when of the retry policy in force is the
\* value of the last layer (fallback, base, per-call) that supplies it, and
\* the call behaves accordingly: a constant budget from that layer bounds the
\* transport invocations, and a function is invoked (so can throw) only for a
\* field whose last supplied value is a function.
C20_RetryMergedFieldByField ==
    /\ \A k \in {"attempts", "delay", "when"} : retry(cfg)[k] = LastSupplied(k)
    /\ LastSupplied("attempts").kind = "const" =>
         /\ calls["fetch"] <= LastSupplied("attempts").n + 1
         /\ "attempts" \notin hist.threw
    /\ LastSupplied("when").kind = "default" => "when" \notin hist.threw
    /\ LastSupplied("delay").kind = "const" => "delay" \notin hist.threw

C20_Witness ==
    /\ Done
    /\ cfg.callRetry = [attempts |-> [kind |-> "const", n |-> 1],
                        delay |-> Absent, when |-> Absent]
    /\ cfg.baseRetry.when = CustomWhen
    /\ cfg.baseRetry.delay = DelayFn
    /\ cfg.baseRetry.attempts = [kind |-> "const", n |-> 0]
    /\ "fetch" \in hist.threw
    /\ "delay" \in hist.threw

\* What holds of the frame f of a call that runs alone through a client with
\* global hooks: its attempt counter, its transport and hook invocations and
\* its result agree with one another and with its own retry budget.
RunsAsAlone(f) ==
    /\ f.calls["fetch"] <= f.calls["onRequestG"]
    /\ f.attempt <= f.calls["onRequestG"]
    /\ f.calls["onRequestG"] <= f.attempt + 1
    /\ f.calls["onRetryG"] <= f.attempt
    /\ f.attempt <= f.calls["onRetryG"] + 1
    /\ f.request # Undefined =>
         /\ f.request.attempt <= f.attempt
         /\ f.attempt <= f.request.attempt + 1
    /\ retry(f.cfg).attempts.kind = "const" =>
         f.calls["fetch"] <= retry(f.cfg).attempts.n + 1
    /\ f.calls["onSuccessG"] <= 1 /\ f.calls["onErrorG"] <= 1
    /\ f.pc = "done" =>
         /\ f.settled = "resolved"
         /\ f.result.ok =>
              /\ f.result = ok(f.data)
              /\ f.calls["onSuccessG"] = 1 /\ f.calls["onErrorG"] = 0
         /\ ~f.result.ok => f.result = fetcherCatch(f.thrown).result

\* C16: two calls through one client, interleaved at any of their awaits, do
\* not interfere: a step of the running call leaves the frame of the
\* suspended call as it was, a call resumes with exactly the frame it was
\* suspended with, so the attempt counter, the transport and hook
\* invocations and the result of each call are those of that call running
\* alone; and the calls share only the base options and the schema table,
\* which no step changes.
C16_NoInterference ==
    /\ [](/\ RunsAsAlone(Frame(3 - other.id))
          /\ RunsAsAlone(other)
          /\ Base(cfg) = Base(other.cfg))
    /\ [][/\ Base(cfg)' = Base(cfg)
          /\ other'.id = other.id => other' = other
          /\ other'.id # other.id =>
               /\ other' = Frame(3 - other.id)
               /\ [Frame(0)' EXCEPT !.id = other.id] = other]_vars

C16_Witness ==
    /\ other # NotCalled
    /\ pc = "inflight" /\ other.pc = "inflight"
    /\ attempt = 1 /\ calls["fetch"] = 2 /\ calls["onRetryG"] = 1
    /\ other.attempt = 0 /\ other.calls["fetch"] = 1
    /\ other.calls["onRetryG"] = 0

\* The layers of the argument list that mention the header name k, in any
\* letter case.
Mentions(inits, k) ==
    {i \in 1..Len(inits) : inits[i] # Undefined /\
        \E j \in 1..Len(inits[i].pairs) :
            ToLowerCase(inits[i].pairs[j][1]) = k}

\* C21: mergeHeaders gives every header name the value of the last layer
\* that mentions it, names compared without regard to letter case; a name
\* whose last value is the string 'null' or 'undefined' is not in the result,
\* whatever earlier layers set, and a name no layer mentions is not either.
C21_MergeHeadersLastWins ==
    (pure.fn = "mergeHeaders" /\ pure.out # NotCalled) =>
      LET inits == pure.args
          res == pure.out.res
      IN  /\ DOMAIN res \subseteq {ToLowerCase(n) : n \in HeaderNames}
          /\ \A k \in {ToLowerCase(n) : n \in HeaderNames} :
               LET ls == Mentions(inits, k) IN
               IF ls = {} THEN k \notin DOMAIN res
               ELSE LET last == CHOOSE i \in ls : \A j \in ls : j <= i
                        v == NewHeaders(inits[last])[k]
                    IN  IF v \in {"null", "undefined"}
                        THEN k \notin DOMAIN res
                        ELSE k \in DOMAIN res /\ res[k] = v

C21_Witness ==
    /\ pure.fn = "mergeHeaders" /\ pure.out # NotCalled
    /\ pure.args = << HeadersInit(<< <<"Accept", "1">> >>),
                      HeadersInit(<< <<"x-id", "1">>, <<"accept", "undefined">> >>),
                      HeadersInit(<< <<"x-id", "2">> >>) >>
    /\ pure.out.res = ("x-id" :> "2")

\* C22: with no content-type in the base or per-call headers, a plain
\* object, array or toJSON-object body gets content-type: application/json
\* and a FormData, missing or null body gets no content-type; a content-type
\* given in the base or per-call headers is the one in force (the per-call
\* one over the base one), never the automatic one.
C22_AutomaticContentType ==
    (pure.fn = "optionsHeaders" /\ pure.out # NotCalled) =>
      LET body == pure.args.body
          given == << pure.args.base, pure.args.call >>
          ls == Mentions(given, "content-type")
          res == pure.out.headers
      IN  IF ls = {}
          THEN /\ body.t \in {"object", "array", "toJSON"} =>
                    /\ "content-type" \in DOMAIN res
                    /\ res["content-type"] = "application/json"
               /\ body.t \in {"FormData", "undefined", "null"} =>
                    "content-type" \notin DOMAIN res
          ELSE LET last == CHOOSE i \in ls : \A j \in ls : j <= i
                   v == NewHeaders(given[last])["content-type"]
               IN  IF v \in {"null", "undefined"}
                   THEN "content-type" \notin DOMAIN res
                   ELSE /\ "content-type" \in DOMAIN res
                        /\ res["content-type"] = v

C22_Witness ==
    /\ pure.fn = "optionsHeaders" /\ pure.out # NotCalled
    /\ pure.args.body = Obj("body")
    /\ pure.args.base = HeadersInit(<< <<"x-id", "1">> >>)
    /\ pure.args.call = Undefined
    /\ pure.out.body.t = "string"
    /\ pure.out.headers = ("content-type" :> "application/json") @@ ("x-id" :> "1")

\* The texts the query string carries for a parameter value: none for
\* undefined and null, one per non-nil item of an array, else one.
Written(value) ==
    IF isNil(value) THEN {}
    ELSE IF value.t = "array"
         THEN {EncodeValue(value.items[i]) :
                 i \in {j \in 1..Len(value.items) : ~isNil(value.items[j])}}
         ELSE {EncodeValue(value)}

\* C23: the query string of the resolved URL carries, for every key of the
\* base or per-call parameters (that the input URL does not carry itself),
\* the per-call value when the call has the key and the base value
\* otherwise; a key whose value is undefined (or null) is not in the query
\* string, so a per-call undefined removes a base key; and nothing else is
\* in the query string.
C23_QueryLayering ==
    (pure.fn = "resolveUrl" /\ pure.out # NotCalled) =>
      LET base == pure.args.defaultOptsParams
          call == pure.args.fetcherOptsParams
          own == searchParamsKeys(pure.args.input.p)
          query == ParseSearch(SearchOf(pure.out.p))
          Layered(k) == IF k \in KeysOf(call) THEN ValueOf(call, k)
                        ELSE ValueOf(base, k)
      IN  /\ \A k \in (KeysOf(base) \cup KeysOf(call)) \ own :
               {pr.value : pr \in {q \in query : q.key = k}} = Written(Layered(k))
          /\ \A pr \in query : pr.key \in KeysOf(base) \cup KeysOf(call) \cup own

C23_Witness ==
    /\ pure.fn = "resolveUrl" /\ pure.out # NotCalled
    /\ pure.args.base = Text(<< "http", ":", "/", "/", "h" >>)
    /\ pure.args.input = Text(<< "/", "users" >>)
    /\ pure.args.defaultOptsParams =
         Params(<< <<"keep", Str("v")>>, <<"remove", Str("x")>> >>)
    /\ pure.args.fetcherOptsParams = Params(<< <<"remove", Undefined>> >>)
    /\ pure.out = Text(<< "http", ":", "/", "/", "h", "/", "users",
                          "?", "keep", "=", "v" >>)

\* C24: an absolute http(s) input is taken as it is, whatever the base;
\* otherwise base and input are concatenated directly when either is empty
\* and else joined with one slash, after one trailing slash of the base and
\* one leading slash of the input are dropped; a non-empty serialized query
\* follows, after ? when the URL has no ? yet and after & when it has.
C24_ResolveUrlJoin ==
    (pure.fn = "resolveUrl" /\ pure.out # NotCalled) =>
      LET b == IF pure.args.base = Undefined THEN <<>> ELSE pure.args.base.p
          in == pure.args.input.p
          absolute == \E scheme \in {"http", "https"} :
                         /\ Len(in) >= 4
                         /\ SubSeq(in, 1, 4) = << scheme, ":", "/", "/" >>
          bare == IF b # <<>> /\ b[Len(b)] = "/" THEN SubSeq(b, 1, Len(b) - 1)
                  ELSE b
          rest == IF in # <<>> /\ in[1] = "/" THEN SubSeq(in, 2, Len(in))
                  ELSE in
          url == IF absolute THEN in
                 ELSE IF b = <<>> \/ in = <<>> THEN b \o in
                 ELSE bare \o << "/" >> \o rest
          qs == serializeParams(
                    objectSpread(omit(pure.args.defaultOptsParams,
                                      searchParamsKeys(in)),
                                 pure.args.fetcherOptsParams))
          hasQuery == \E i \in 1..Len(url) : url[i] = "?"
      IN  pure.out.p =
            IF qs = <<>> THEN url
            ELSE url \o (IF hasQuery THEN << "&" >> ELSE << "?" >>) \o qs

C24_Witness ==
    /\ pure.fn = "resolveUrl" /\ pure.out # NotCalled
    /\ pure.args.base = Text(<< "http", ":", "/", "/", "h", "/" >>)
    /\ pure.args.input = Text(<< "/", "users", "?", "keep", "=", "z" >>)
    /\ pure.args.defaultOptsParams = Params(<< <<"keep", Str("a b")>> >>)
    /\ pure.args.fetcherOptsParams =
         Params(<< <<"remove", Str("y")>>, <<"extra", Num(7)>> >>)
    /\ pure.out = Text(<< "http", ":", "/", "/", "h", "/", "users",
                          "?", "keep", "=", "z", "&", "remove", "=", "y",
                          "&", "extra", "=", "7" >>)

\* The original path with every :name token replaced at once: by
\* String(params[name]) when params has a value for name that is neither
\* null nor undefined, by itself otherwise.
RECURSIVE SubstitutedOnce(_, _)
SubstitutedOnce(path, params) ==
    IF path = <<>> THEN <<>>
    ELSE IF /\ Len(path) >= 2 /\ path[1] = ":"
            /\ path[2] \in KeysOf(params)
            /\ ~isNil(ValueOf(params, path[2]))
         THEN StringOf(ValueOf(params, path[2]))
                \o SubstitutedOnce(SubSeq(path, 3, Len(path)), params)
         ELSE << Head(path) >> \o SubstitutedOnce(Tail(path), params)

\* C25: replacePathParams replaces every :name token of the original path by
\* String(value) exactly when params[name] is neither null nor undefined,
\* leaves every other token as literal text, and never substitutes inside
\* the text it inserted for a parameter.
C25_PathParamsSubstitution ==
    (pure.fn = "replacePathParams" /\ pure.out # NotCalled) =>
      pure.out.p = SubstitutedOnce(pure.args.path.p, pure.args.params)

\* C26: validate returns the output value of the schema when its result has
\* no issues, and otherwise throws a ValidationError whose issues are the
\* issues of the result in order and whose data is the input passed in, not
\* the output the result carries, whether the schema answers at once or
\* through a promise.
C26_ValidateOutcome ==
    (pure.fn = "validate" /\ pure.out # NotCalled) =>
      LET raw == pure.args.result IN
      IF raw.issues = Undefined
      THEN ~pure.out.threw /\ pure.out.value = raw.value
      ELSE /\ pure.out.threw
           /\ isValidationError(pure.out.value)
           /\ pure.out.value.issues = raw.issues.items
           /\ pure.out.value.data = pure.args.data

C26_Witness ==
    /\ pure.fn = "validate" /\ pure.out # NotCalled
    /\ pure.args.async
    /\ pure.args.data = Str("raw")
    /\ pure.args.result = [issues |-> [t |-> "array", items |-> <<"b", "a">>],
                           value |-> Obj("partial")]
    /\ pure.out.threw
    /\ pure.out.value.issues = <<"b", "a">>
    /\ pure.out.value.data = Str("raw")

\* C27: every matchResfetch on a result invokes one handler, once: ok with
\* result.data for a success, validationError with the error for a
\* ValidationError, responseError with the error for any other failure, and
\* returns what that handler returned; matching the same result again gives
\* an equal output.
C27_MatchDispatch ==
    pure.fn = "matchResfetch" =>
      LET res == pure.args.result
          handler == IF res.ok THEN "ok"
                     ELSE IF res.error.t = "ValidationError"
                          THEN "validationError" ELSE "responseError"
          arg == IF res.ok THEN res.data ELSE res.error
      IN  /\ Len(pure.invoked) = Len(pure.returned)
          /\ \A i \in 1..Len(pure.invoked) : pure.invoked[i] = << handler, arg >>
          /\ \A i \in 1..Len(pure.returned) :
               pure.returned[i] = HandlerValue(handler, arg)
          /\ \A i, j \in 1..Len(pure.returned) :
               pure.returned[i] = pure.returned[j]

C27_Witness ==
    /\ pure.fn = "matchResfetch"
    /\ pure.args.result = err(ValidationError(<<"a", "b">>, Str("raw")))
    /\ Len(pure.returned) = 2
    /\ pure.returned[1].by = "validationError"
    /\ pure.returned[2] = pure.returned[1]

\* C28: the context handed to retry.when, to a retry.delay function and to
\* the onRetry hooks holds exactly one of response and error: the response
\* of this attempt and no error when the attempt's transport call returned,
\* and no response when the attempt threw; nothing is carried over from an
\* earlier attempt.
C28_ExactlyOneOfResponseError ==
    pc \in {"when", "delay", "onRetryG", "onRetryL"} =>
      /\ hist.last \in {"ok", "bad"} =>
           /\ response # Undefined
           /\ response.attempt = request.attempt
           /\ error = Undefined
      /\ hist.last \in {"throw", "none"} => response = Undefined

\* C29: a call whose last attempt ended with the transport or an onRequest
\* hook throwing returns ok=false, whatever the thrown value (falsy values
\* included) and whatever the reject predicate.
C29_ThrownValueNeverLost ==
    (Done /\ hist.last \in {"throw", "none"} /\ calls["onRequestG"]
        + calls["onRequestL"] + calls["fetch"] > 0) =>
      settled = "resolved" /\ ~result.ok

\* The functions of the retry decision and the onRetry hooks.
RetrySources == {"when", "attempts", "delay", "onRetry"}

\* The steps of the attempt/retry loop.
LoopSteps ==
    { "newRequest", "onRequestG", "onRequestL", "fetch", "inflight", "when",
      "attempts", "delay", "sleep", "onRetryG", "onRetryL" }

\* C30 as stated: once retry.when, retry.attempts, retry.delay or an onRetry hook has
\* thrown, the loop is over: the call is at no step of the loop again, so no
\* transport invocation follows; the thrown error is the error onError
\* receives; and it is the outcome of the call, which returns ok=false with
\* it and never runs onSuccess, even when the attempt had an ok response.
C30_RetryDecisionThrowEndsLoop ==
    \A src \in RetrySources \cap hist.threw :
      /\ pc \notin LoopSteps
      /\ hist.threw \cap RetrySources = {src}
      /\ error = HookError(src)
      /\ pc # "post" => caught = HookError(src)
      /\ hist.errG \in {NotCalled, HookError(src)}
      /\ hist.errL \in {NotCalled, HookError(src)}
      /\ calls["onSuccessG"] = 0 /\ calls["onSuccessL"] = 0
      /\ Done =>
           /\ settled = "resolved" /\ ~result.ok
           /\ "onError" \notin hist.threw =>
                result.error.originalError = HookError(src)

(***************************************************************************)
(* The retry policy, read at each retry decision.                          *)
(***************************************************************************)
\* The turns of the loop after which retry.when has been evaluated.
Turns ==
    IF request = Undefined THEN 0
    ELSE IF pc \in {"onRequestG", "onRequestL", "fetch", "inflight", "when"}
         THEN request.attempt
         ELSE request.attempt + 1

\* A retry decision is under way: retry.when has answered true and
\* retry.attempts is about to be read; the limit was found not exceeded and
\* retry.delay is about to be read.
AtAttempts == IF pc = "attempts" THEN 1 ELSE 0
AtDelay == IF pc = "delay" THEN 1 ELSE 0

\* C31: the retry policy is read lazily, with short-circuit, at each retry
\* decision: retry.when is evaluated once after every attempt; a
\* retry.attempts function is evaluated exactly once for each decision at
\* which retry.when answered true, and the value it has just returned is the
\* limit of that decision; a retry.delay function is evaluated, and a delay
\* started, only at the decisions whose limit was not exceeded.
C31_RetryPolicyLazy ==
    /\ [](/\ calls["when"] = Turns
          /\ hist.whenTrue <= calls["when"]
          /\ calls["attempts"] =
               IF retry(cfg).attempts.kind = "fn"
               THEN hist.whenTrue - AtAttempts ELSE 0
          /\ hist.within <= hist.whenTrue - AtAttempts
          /\ calls["delay"] =
               IF retry(cfg).delay.kind = "fn"
               THEN hist.within - AtDelay ELSE 0
          /\ calls["abortableDelay"] =
               hist.within - AtDelay
                 - (IF "delay" \in hist.threw THEN 1 ELSE 0)
          /\ pc = "delay" => attempt <= hist.limit)
    /\ [][(attempt' = attempt + 1 /\ "attempts" \notin hist'.threw) =>
            /\ retry(cfg).attempts.kind = "const" =>
                 hist'.limit = retry(cfg).attempts.n
            /\ pc' = "delay" <=> attempt' <= hist'.limit
            /\ pc' = "post" <=> attempt' > hist'.limit]_vars

\* Two retry decisions with retry.attempts and retry.delay given as
\* functions: the first finds the limit not exceeded and the delay is read;
\* at the second retry.attempts answers 0 and the loop ends.
C31_Witness ==
    /\ pc = "post"
    /\ retry(cfg).attempts.kind = "fn" /\ retry(cfg).delay.kind = "fn"
    /\ calls["when"] = 2 /\ calls["attempts"] = 2 /\ calls["delay"] = 1
    /\ hist.limit = 0 /\ attempt = 2

(***************************************************************************)
(* Between two attempts.                                                   *)
(***************************************************************************)
\* How many times a hook of the client's, or of the call's, options has run
\* when it has been reached n times.
RunsG(n) == IF cfg.hooksG THEN n ELSE 0
RunsL(n) == IF cfg.hooksL THEN n ELSE 0

\* C32: between two consecutive attempts the retry decision comes first,
\* then the retry delay, which runs to its end, then the onRetry hook of the
\* client's options, then the onRetry hook of the call's options, then the
\* onRequest hooks of the next attempt and then its transport invocation;
\* retry.delay and the onRetry hooks are given 1 at the first retry, 2 at
\* the second, and so on.
C32_OrderBetweenAttempts ==
    /\ calls["delay"] > 0 => hist.delayArg = calls["delay"]
    /\ calls["onRetryG"] > 0 => hist.retryArgG = calls["onRetryG"]
    /\ calls["onRetryL"] > 0 => hist.retryArgL = calls["onRetryL"]
    /\ pc = "sleep" =>
         /\ hist.whenTrue = attempt /\ hist.within = attempt
         /\ calls["abortableDelay"] = attempt /\ hist.slept = attempt - 1
         /\ calls["onRetryG"] = RunsG(attempt - 1)
         /\ calls["onRetryL"] = RunsL(attempt - 1)
    /\ pc = "onRetryG" =>
         /\ hist.slept = attempt
         /\ calls["onRetryG"] = RunsG(attempt - 1)
         /\ calls["onRetryL"] = RunsL(attempt - 1)
    /\ pc = "onRetryL" =>
         /\ hist.slept = attempt
         /\ calls["onRetryG"] = RunsG(attempt)
         /\ calls["onRetryL"] = RunsL(attempt - 1)
    /\ pc \in {"newRequest", "onRequestG", "onRequestL", "fetch", "inflight"} =>
         /\ calls["when"] = attempt /\ hist.whenTrue = attempt
         /\ hist.slept = attempt
         /\ calls["onRetryG"] = RunsG(attempt)
         /\ calls["onRetryL"] = RunsL(attempt)
    /\ pc = "onRequestG" =>
         /\ calls["onRequestG"] = RunsG(attempt)
         /\ calls["onRequestL"] <= RunsL(attempt)
    /\ pc = "onRequestL" =>
         /\ calls["onRequestG"] = RunsG(attempt + 1)
         /\ calls["onRequestL"] <= RunsL(attempt)
    /\ pc = "fetch" =>
         /\ calls["onRequestG"] = RunsG(attempt + 1)
         /\ calls["onRequestL"] <= RunsL(attempt + 1)
         /\ calls["fetch"] <= attempt
    /\ pc = "inflight" => calls["fetch"] <= attempt + 1

\* The transport call of the third attempt is in flight, after two retries
\* with a retry.delay function and both onRetry hooks.
C32_Witness ==
    /\ pc = "inflight" /\ attempt = 2 /\ calls["fetch"] = 3
    /\ cfg.hooksG /\ cfg.hooksL
    /\ hist.delayArg = 2 /\ hist.retryArgG = 2 /\ hist.retryArgL = 2
    /\ hist.slept = 2

(***************************************************************************)
(* After the loop: reject, parseRejected, onResponse.                      *)
(***************************************************************************)
\* The steps that follow an answer of reject.
AfterReject ==
    { "parseRejected", "onResponseG", "onResponseL", "parseResponse",
      "validateResponse", "onSuccessG", "onSuccessL", "return" }

\* The order and the number of the evaluations of reject and parseRejected:
\* reject is evaluated after the loop, at most once, and exactly once when
\* the loop left no error to throw; parseRejected is invoked only after
\* reject answered true, and then exactly once; what it returns is the error
\* the executor ends with, which the onError hooks receive and the result
\* carries; after reject answered false parseRejected is never invoked.
RejectBeforeParseRejected ==
    /\ calls["reject"] <= 1 /\ calls["parseRejected"] <= 1
    /\ pc \in LoopSteps \cup {"post", "reject"} => calls["reject"] = 0
    /\ pc \in AfterReject => (calls["reject"] = 1 /\ ~Truthy(error))
    /\ calls["reject"] = 1 =>
         /\ hist.rejectArg = response
         /\ hist.rejectOut # "none"
    /\ calls["reject"] = 0 => hist.rejectOut = "none"
    /\ calls["parseRejected"] =
         IF hist.rejectOut = "true" /\ pc # "parseRejected" THEN 1 ELSE 0
    /\ pc = "parseRejected" => hist.rejectOut = "true"
    /\ hist.rejectOut \in {"false", "threw"} => hist.rejected = NotCalled
    /\ hist.rejected # NotCalled =>
         /\ ErrorExit /\ caught = hist.rejected
         /\ hist.errG \in {NotCalled, hist.rejected}
         /\ hist.errL \in {NotCalled, hist.rejected}
         /\ Done => Failed
         /\ (Done /\ "onError" \notin hist.threw) =>
              Carries(result, hist.rejected)

\* reject was given the response that the transport call of the final
\* attempt returned.
RejectOnFinalResponse ==
    calls["reject"] = 1 =>
      /\ hist.rejectArg # Undefined
      /\ hist.rejectArg.attempt = request.attempt
      /\ hist.last \in {"ok", "bad"}

\* C33 as stated: after the retry loop reject is evaluated exactly once, on
\* the final response, and before parseRejected; parseRejected is invoked
\* only when reject returned true, and its return value is the terminal
\* error of the call; when reject returns false the call proceeds to parsing.
C33_RejectOnceOnFinalResponse ==
    RejectBeforeParseRejected /\ RejectOnFinalResponse

\* Each onResponse hook runs at most once, after the loop and after reject
\* answered false with no error left by the loop, with the response reject
\* was given, the client's hook before the call's, and both before
\* parseResponse.
OnResponseOnce ==
    /\ calls["onResponseG"] <= 1 /\ calls["onResponseL"] <= 1
    /\ pc \in LoopSteps \cup {"post", "reject", "parseRejected", "onResponseG"} =>
         (calls["onResponseG"] = 0 /\ calls["onResponseL"] = 0)
    /\ calls["onResponseG"] + calls["onResponseL"] > 0 =>
         /\ hist.rejectOut = "false" /\ ~Truthy(error)
         /\ hist.rejected = NotCalled
    /\ calls["onResponseG"] = 1 => hist.respG = response
    /\ calls["onResponseL"] = 1 =>
         /\ hist.respL = response
         /\ calls["onResponseG"] = RunsG(1)
         /\ hist.lSaw.hook = "onResponse" =>
              hist.lSaw.after \in {NotCalled,
                                   [hook |-> "onResponse", threw |-> FALSE]}
    /\ pc \in {"onResponseG", "onResponseL"} => calls["parseResponse"] = 0
    /\ calls["parseResponse"] <= 1
    /\ calls["parseResponse"] = 1 =>
         /\ calls["onResponseG"] = RunsG(1)
         /\ calls["onResponseL"] = RunsL(1)
         /\ "onResponse" \notin hist.threw

\* An onResponse hook was given the response that the transport call of the
\* final attempt returned.
OnResponseForFinalResponse ==
    /\ calls["onResponseG"] = 1 =>
         /\ hist.respG # Undefined
         /\ hist.respG.attempt = request.attempt
         /\ hist.last \in {"ok", "bad"}
    /\ calls["onResponseL"] = 1 =>
         /\ hist.respL # Undefined
         /\ hist.respL.attempt = request.attempt
         /\ hist.last \in {"ok", "bad"}

\* C34 as stated: the onResponse hooks run at most once per call, only after
\* the retry loop has ended, only for the final response, only when there is
\* no terminal error and reject returned false, and before parseResponse.
C34_OnResponseOnceForFinalResponse ==
    OnResponseOnce /\ OnResponseForFinalResponse

(***************************************************************************)
(* A throwing onRequest hook.                                              *)
(***************************************************************************)
\* The onRequest hooks of the attempt that has just ended threw.
HookFailedAttempt == hist.last = "none" /\ "onRequest" \in hist.threw

\* The turns of the loop whose first try block has ended.
TriesEnded ==
    IF request = Undefined THEN 0
    ELSE IF pc \in {"onRequestG", "onRequestL", "fetch", "inflight"}
         THEN request.attempt
         ELSE request.attempt + 1

\* C35: a throwing onRequest hook is the failure of its attempt, as a
\* throwing transport is: the transport is not invoked in that attempt (the
\* transport invocations are one for each attempt but those whose onRequest
\* threw), the thrown value is the error given to retry.when and the call
\* goes on with the retry decision, and when a later attempt gets an ok
\* response the error is cleared and the call returns ok=true.
C35_OnRequestThrowIsAttemptFailure ==
    /\ calls["fetch"] =
         TriesEnded - hist.hookFailed + (IF pc = "inflight" THEN 1 ELSE 0)
    /\ (pc \in {"when", "attempts", "delay", "sleep"} /\ HookFailedAttempt) =>
         /\ error = HookError("onRequest")
         /\ hist.errG = NotCalled /\ hist.errL = NotCalled
    /\ HookFailedAttempt =>
         calls["when"] = TriesEnded - (IF pc = "when" THEN 1 ELSE 0)
    /\ (pc = "when" /\ hist.last \in {"ok", "bad"}) => error = Undefined
    /\ (Done /\ hist.threw = {"onRequest"} /\ hist.last = "ok"
           /\ hist.rejectOut = "false" /\ hist.vfail = "none") =>
         (settled = "resolved" /\ result.ok)

\* The onRequest hook threw in the first attempt, retry.when answered true,
\* and the second attempt got an ok response: one transport invocation, and
\* the call returned ok=true.
C35_Witness ==
    /\ Done /\ result.ok
    /\ hist.hookFailed = 1 /\ hist.threw = {"onRequest"}
    /\ Turns = 2 /\ calls["fetch"] = 1 /\ calls["when"] = 2
    /\ hist.retryArgG = 1

(***************************************************************************)
(* The caller's signal fires while a transport call is in flight.          *)
(***************************************************************************)
\* The caller's signal fired during the transport call of an attempt, and
\* that transport call ended by throwing the signal's reason.
AbortedInFlight ==
    /\ hist.flightAbort > 0
    /\ hist.cancel # NotCalled
    /\ hist.cancel.caller
    /\ hist.cancel.attempt + 1 = hist.flightAbort

\* C36 as stated: when the caller's signal fired during an in-flight
\* transport call, which failed with the signal's reason, the call starts no
\* new attempt, whatever retry.when answers: no retry delay is ever pending
\* (the signal, already aborted, cancels it at once), no onRetry hook and no
\* transport invocation follows, and the call ends with a failure.
C36_AbortEndsCall ==
    AbortedInFlight =>
      /\ request.attempt + 1 = hist.flightAbort
      /\ calls["fetch"] <= hist.flightAbort
      /\ pc \notin {"sleep", "onRetryG", "onRetryL", "newRequest"}
      /\ Done => Failed

(***************************************************************************)
(* A signal in the client's options.                                       *)
(***************************************************************************)
\* C37 as stated: the signal of the client's options acts on every call that
\* has no signal of its own as a per-call signal does: it is a source of the
\* signal of every attempt, so that once it has fired the signal given to
\* the transport call in flight has fired, and no retry delay stays pending.
C37_BaseSignalCancels ==
    (cfg.baseSignal /\ ~cfg.signal) =>
      /\ request # Undefined => BaseSource \in signal.src
      /\ (baseAbort # NotAborted /\ pc = "inflight") =>
           signal.reason # NotAborted
      /\ (baseAbort # NotAborted /\ pc = "sleep") => hist.delayCut = "abort"

(***************************************************************************)
(* Termination.                                                            *)
(***************************************************************************)
\* A bound of retry.attempts: the constant, or the largest value the
\* function returns.
AttemptsBound ==
    IF retry(cfg).attempts.kind = "const"
    THEN retry(cfg).attempts.n ELSE MaxAttempts

\* C38: when everything the call awaits settles, the call returns a result,
\* whatever retry.when answers, after at most N + 1 attempts, N being a
\* bound of retry.attempts: never more than N + 1 turns of the loop, nor
\* more than N + 1 transport invocations.
C38_CallTerminates ==
    /\ <>(pc = "done" /\ settled = "resolved")
    /\ [](/\ request # Undefined => request.attempt <= AttemptsBound
          /\ attempt <= AttemptsBound + 1
          /\ calls["fetch"] <= AttemptsBound + 1
          /\ calls["when"] <= AttemptsBound + 1)

\* A call has returned after MaxAttempts + 1 transport invocations, with a
\* retry.when that answered true each time.
C38_Witness ==
    /\ pc = "done" /\ settled = "resolved"
    /\ ~WhenDefault
    /\ AttemptsBound = MaxAttempts
    /\ calls["fetch"] = MaxAttempts + 1 /\ calls["when"] = MaxAttempts + 1
    /\ hist.whenTrue = MaxAttempts + 1

(***************************************************************************)
(* The caller's objects.                                                   *)
(***************************************************************************)
\* C39: a call leaves its inputs as they were: at every step of the call,
\* and so when it has returned, with ok=true or with ok=false, the per-call
\* options object (its body, query and params also when a schema has
\* transformed them), the client's options and the schema table hold the
\* values they held when the call was made.
C39_InputsUnchanged ==
    heap = Owned(cfg)

\* A call has returned after its schema transformed the body, the query and
\* the params: the clone holds the transformed values.
C39_Witness ==
    /\ Done
    /\ hist.validated = {"body", "query", "params"}
    /\ currentOptions.body = Obj("transformed")
    /\ currentOptions.query = Obj("transformed")
    /\ currentOptions.params = Obj("transformed")
    /\ cfg.body = Obj("body")

(***************************************************************************)
(* What a prepared request carries.                                        *)
(***************************************************************************)
\* The route of the calls: one path parameter, :k.
RouteUrl == Text(<< "/", "users", "/", ":", "k" >>)

\* The object Obj(l) is {k: l}: as the params of replacePathParams and as the
\* params of resolveUrl; a value that is no object has no entries.
PathObject(v) ==
    IF v.t = "object" THEN Params(<< << "k", Text(<< v.k >>) >> >>) ELSE v

QueryObject(v) ==
    IF v.t = "object" THEN Params(<< << "k", Str(v.k) >> >>) ELSE Undefined

\* The body of the request that was built: options.body.
SentBody == optionsBody(request.built.body)

\* The URL of the request that was built: replacePathParams of create.ts,
\* then resolveUrl of enhance with no base and no params of the client.
SentUrl ==
    resolveUrl(Undefined,
               replacePathParams(RouteUrl, PathObject(request.built.params)),
               Undefined, QueryObject(request.built.query))

\* What the request carries when it was built of body b, query q, params p.
UrlOf(q, p) ==
    resolveUrl(Undefined, replacePathParams(RouteUrl, PathObject(p)),
               Undefined, QueryObject(q))

\* C40: request preparation validates a part (body, query, params) only
\* when the effective schema has a validator for it and the call gives a
\* truthy value for it, so no ValidationError names another part; a call
\* that passed preparation validated exactly those parts; the request built
\* carries a falsy or unvalidated part as the caller gave it; and, for a
\* part whose validation passed, the request carries the schema's output:
\* serialized as the body, serialized as the query string, substituted
\* into the path.
C40_PrepValidationGuardAndOutput ==
    LET should == {p \in PrepParts : schemaDef(cfg)[p] /\ Truthy(cfg[p])}
        Sent(p) == IF p \in should THEN hist.out[p] ELSE cfg[p]
    IN  /\ hist.validated \cap PrepParts \subseteq should
        /\ hist.vfail \in PrepParts => hist.vfail \in should
        /\ request # Undefined =>
              /\ hist.validated \cap PrepParts = should
              /\ hist.vfail \notin PrepParts
              /\ \A p \in PrepParts : request.built[p] = Sent(p)
              /\ SentBody = optionsBody(Sent("body"))
              /\ SentUrl = UrlOf(Sent("query"), Sent("params"))

\* A call with a body that is the empty string under a schema that validates
\* the body has succeeded without validating it, and its query and params
\* went out as the schema transformed them.
C40_Witness ==
    /\ Done /\ result.ok /\ calls["fetch"] = 1
    /\ schemaDef(cfg).body /\ cfg.body = Str("")
    /\ cfg.query = Obj("query") /\ cfg.params = Obj("params")
    /\ hist.validated = {"query", "params"}
    /\ hist.out.query = Obj("transformed")
    /\ hist.out.params = Obj("transformed")
    /\ SentBody = Str("")
    /\ SentUrl = Text(<< "/", "users", "/", "transformed", "?", "k", "=",
                         "transformed" >>)

====
